---- MODULE Spec2Model ----
(***************************************************************************)
(* A model of the formula engine of webapps-calculator                     *)
(* (src/webapp/calculator.js): tokenizer, precedence-climbing parser,      *)
(* formatter and the callback-based reduction engine.                      *)
(*                                                                         *)
(* A formula is a sequence of characters; a character is a one-element     *)
(* atom written as a string.  The non-ASCII characters of the grammar are  *)
(* written with ASCII names: "sq" is the superscript two, "cu" the         *)
(* superscript three, "sqrt" the radical sign and "in" the element-of      *)
(* sign.  "\t" is the tab character.  Positions are 0-based as in the      *)
(* source: formula[i] of the source is f[i + 1] here.                      *)
(***************************************************************************)
EXTENDS Integers, Sequences, FiniteSets, TLC

VARIABLES
    formula,    \* the text last handed to Calculator.parse
    pc,         \* where the caller is: "ready", "parsed", "formatted", "reparsed",
                \* "reduced", or "session" while it works with one Calculator
    parsed,     \* what Calculator.parse(formula) returned or threw
    text,       \* what Calculator.format(parsed.tree) returned
    reparsed,   \* what Calculator.parse(text) returned or threw
    run,        \* the Calculator's literals and the reduction in progress (see NewRun)
    target,     \* the tree last handed to CalculatorContext.reduce
    kept,       \* a tree parsed earlier that the caller still holds
    parses,     \* how many formulas the caller has parsed in the session
    reductions, \* how many reductions the caller has started in the session
    calls,      \* the calls of addOperator, addLiteral and addFunction the host has
                \* made on a Calculator it sets up itself, in order
    parser      \* the CalculatorParser of a parse followed step by step: its index,
                \* the calls of Exp, Primary and Array under way, what it last did

vars ==
    <<formula, pc, parsed, text, reparsed, run, target, kept, parses, reductions, calls,
      parser>>

(***************************************************************************)
(* Strings                                                                 *)
(***************************************************************************)

\* String.prototype.substring(a, b) for 0 <= a <= b <= length
Substring(f, a, b) == SubSeq(f, a + 1, b)

\* the characters String.prototype.trim removes (those the model's formulas use)
WhiteSpace == {" ", "\t"}

RECURSIVE TrimLeft(_)
TrimLeft(s) == IF s # <<>> /\ Head(s) \in WhiteSpace THEN TrimLeft(Tail(s)) ELSE s

RECURSIVE TrimRight(_)
TrimRight(s) ==
    IF s # <<>> /\ s[Len(s)] \in WhiteSpace THEN TrimRight(SubSeq(s, 1, Len(s) - 1)) ELSE s

\* String.prototype.trim
Trim(s) == TrimRight(TrimLeft(s))

UpperCase == <<"A", "B", "C", "D", "E", "F", "G", "H", "I", "J", "K", "L", "M",
               "N", "O", "P", "Q", "R", "S", "T", "U", "V", "W", "X", "Y", "Z">>
LowerCase == <<"a", "b", "c", "d", "e", "f", "g", "h", "i", "j", "k", "l", "m",
               "n", "o", "p", "q", "r", "s", "t", "u", "v", "w", "x", "y", "z">>

\* String.prototype.toLowerCase, one character
LowerChar(c) ==
    IF \E k \in 1..Len(UpperCase) : UpperCase[k] = c
    THEN LowerCase[CHOOSE k \in 1..Len(UpperCase) : UpperCase[k] = c]
    ELSE c

ToLowerCase(s) == [k \in 1..Len(s) |-> LowerChar(s[k])]

\* the upper-case spelling of one character
UpperChar(c) ==
    IF \E k \in 1..Len(LowerCase) : LowerCase[k] = c
    THEN UpperCase[CHOOSE k \in 1..Len(LowerCase) : LowerCase[k] = c]
    ELSE c

\* whether sep occurs in f at 0-based position p
StartsAt(f, sep, p) ==
    /\ p + Len(sep) <= Len(f)
    /\ \A k \in 1..Len(sep) : f[p + k] = sep[k]

\* String.prototype.indexOf(sep, from), for a non-empty sep
IndexOf(f, sep, from) ==
    IF \E p \in from..(Len(f) - Len(sep)) : StartsAt(f, sep, p)
    THEN CHOOSE p \in from..(Len(f) - Len(sep)) :
            StartsAt(f, sep, p) /\ \A q \in from..(p - 1) : ~StartsAt(f, sep, q)
    ELSE -1

Max(a, b) == IF a >= b THEN a ELSE b

\* body with its argument bound to value, which is computed once
Bind(value, body(_)) == body(value)

(***************************************************************************)
(* Values.  A JavaScript value is a record tagged by k: "null", "bool"     *)
(* (field b), "num" (an integer, field n), "frac" (a number with a         *)
(* fractional part, kept as its digits), "str" (field s, a sequence of     *)
(* characters), "undefined".                                               *)
(***************************************************************************)
Undefined == [k |-> "undefined"]
Null == [k |-> "null"]
Bool(b) == [k |-> "bool", b |-> b]
Num(n) == [k |-> "num", n |-> n]
Str(s) == [k |-> "str", s |-> s]
Frac(w, d) == [k |-> "frac", whole |-> w, digits |-> d]

Digits == <<"0", "1", "2", "3", "4", "5", "6", "7", "8", "9",
            "a", "b", "c", "d", "e", "f">>

IsDigitOf(c, radix) == \E d \in 1..radix : Digits[d] = LowerChar(c)
DigitValue(c) == (CHOOSE d \in 1..16 : Digits[d] = LowerChar(c)) - 1

\* parseInt(s, radix) for a non-empty s of digits of that radix
RECURSIVE ParseInt(_, _)
ParseInt(s, radix) ==
    IF s = <<>> THEN 0
    ELSE ParseInt(SubSeq(s, 1, Len(s) - 1), radix) * radix + DigitValue(s[Len(s)])

\* Number.prototype.toString(radix) for n >= 0
RECURSIVE NatToString(_, _)
NatToString(n, radix) ==
    IF n < radix THEN <<Digits[n + 1]>>
    ELSE NatToString(n \div radix, radix) \o <<Digits[(n % radix) + 1]>>

Abs(n) == IF n < 0 THEN -n ELSE n

\* first occurrence of c in s (1-based), 0 if none
RECURSIVE FirstOf(_, _, _)
FirstOf(s, c, k) ==
    IF k > Len(s) THEN 0 ELSE IF s[k] = c THEN k ELSE FirstOf(s, c, k + 1)

(***************************************************************************)
(* Type supports, addDefaultTypes called without moment: null, boolean,    *)
(* string, hexadecimal, octal, binary, float, integer, in that order.      *)
(***************************************************************************)
DefaultTypes ==
    <<"null", "boolean", "string", "hexadecimal", "octal", "binary", "float", "integer">>

NullToken == <<"n", "u", "l", "l">>
TrueToken == <<"t", "r", "u", "e">>
FalseToken == <<"f", "a", "l", "s", "e">>

\* /^0x[digits]+$/ and its two siblings
RadixMatch(token, letter, radix) ==
    /\ Len(token) >= 3
    /\ token[1] = "0"
    /\ token[2] = letter
    /\ \A k \in 3..Len(token) : IsDigitOf(token[k], radix)

\* the string type's parse: strip the quotes, replace the first \" by "
StringParse(token) ==
    LET inner == SubSeq(token, 2, Len(token) - 1)
        at == IndexOf(inner, <<"\\", "\"">>, 0)
    IN  IF at = -1 THEN inner
        ELSE SubSeq(inner, 1, at) \o <<"\"">> \o SubSeq(inner, at + 3, Len(inner))

\* the string type's format: replace the first " by \" and add the quotes
StringFormat(s) ==
    LET at == FirstOf(s, "\"", 1)
    IN  <<"\"">>
        \o (IF at = 0 THEN s
            ELSE SubSeq(s, 1, at - 1) \o <<"\\", "\"">> \o SubSeq(s, at + 1, Len(s)))
        \o <<"\"">>

\* the fractional digits of parseFloat's result: trailing zeros carry no value
RECURSIVE StripZeros(_)
StripZeros(d) ==
    IF d # <<>> /\ d[Len(d)] = "0" THEN StripZeros(SubSeq(d, 1, Len(d) - 1)) ELSE d

\* CalculatorType.parse of the type named name: the value, or Undefined
TypeParse(name, token) ==
    CASE name = "null" ->
            IF ToLowerCase(token) = NullToken THEN Null ELSE Undefined
      [] name = "boolean" ->
            IF ToLowerCase(token) = TrueToken THEN Bool(TRUE)
            ELSE IF ToLowerCase(token) = FalseToken THEN Bool(FALSE)
            ELSE Undefined
      [] name = "string" ->
            IF Len(token) >= 2 /\ token[1] = "\"" /\ token[Len(token)] = "\""
            THEN Str(StringParse(token)) ELSE Undefined
      [] name = "hexadecimal" ->
            IF RadixMatch(token, "x", 16)
            THEN Num(ParseInt(SubSeq(token, 3, Len(token)), 16)) ELSE Undefined
      [] name = "octal" ->
            IF RadixMatch(token, "o", 8)
            THEN Num(ParseInt(SubSeq(token, 3, Len(token)), 8)) ELSE Undefined
      [] name = "binary" ->
            IF RadixMatch(token, "b", 2)
            THEN Num(ParseInt(SubSeq(token, 3, Len(token)), 2)) ELSE Undefined
      [] name = "float" ->
            LET dot == FirstOf(token, ".", 1)
            IN  IF /\ dot > 0
                   /\ dot < Len(token)
                   /\ \A k \in 1..Len(token) : k # dot => IsDigitOf(token[k], 10)
                THEN LET whole == ParseInt(SubSeq(token, 1, dot - 1), 10)
                         frac == StripZeros(SubSeq(token, dot + 1, Len(token)))
                     IN  IF frac = <<>> THEN Num(whole) ELSE Frac(whole, frac)
                ELSE Undefined
      [] name = "integer" ->
            IF token # <<>> /\ \A k \in 1..Len(token) : IsDigitOf(token[k], 10)
            THEN Num(ParseInt(token, 10)) ELSE Undefined

\* a variant of Signed that leaves the prefix of the notation out
SignedBare(prefix, n, radix) ==
    (IF n < 0 THEN <<"-">> ELSE <<>>) \o NatToString(Abs(n), radix)

\* the format of the number notations: the sign, the prefix, the digits of |n|
Signed(prefix, n, radix) ==
    (IF n < 0 THEN <<"-">> ELSE <<>>) \o prefix \o NatToString(Abs(n), radix)

\* ToBoolean
Truthy(v) ==
    CASE v.k = "bool" -> v.b
      [] v.k = "num" -> v.n # 0
      [] v.k = "str" -> v.s # <<>>
      [] v.k = "frac" -> TRUE
      [] OTHER -> FALSE

\* CalculatorType.format of the type named name, on the values the model computes
TypeFormat(name, v) ==
    CASE name = "null" -> NullToken
      [] name = "boolean" -> IF Truthy(v) THEN TrueToken ELSE FalseToken
      [] name = "string" -> StringFormat(v.s)
      [] name = "hexadecimal" -> Signed(<<"0", "x">>, v.n, 16)
      [] name = "octal" -> Signed(<<"0", "o">>, v.n, 8)
      [] name = "binary" -> Signed(<<"0", "b">>, v.n, 2)
      [] name = "float" ->
            IF v.k = "frac" THEN NatToString(v.whole, 10) \o <<".">> \o v.digits
            ELSE Signed(<<>>, v.n, 10)
      [] name = "integer" -> Signed(<<>>, v.n, 10)


(***************************************************************************)
(* The grammar registry of a Calculator after addDefaultTypes,             *)
(* addDefaultLiterals, addDefaultFunctions and addDefaultOperators (lang   *)
(* the identity, no moment), then the embedder's own functions.  A table   *)
(* is the sequence of its entries in insertion order; an entry's key is    *)
(* its lower-cased token (field key).  The field reduce names the entry's reduce       *)
(* procedure: "calc" is the default recipe around the entry's calculate,   *)
(* the other names are the hand-written reduce procedures.                 *)
(***************************************************************************)
\* addDefaultOperators, the entries with associativity prefix
DefaultPrefixOperators ==
    <<
       [key |-> <<"sqrt">>, token |-> <<"sqrt">>, precedence |-> 15, associativity |-> "prefix", reduce |-> "calc"],
       [key |-> <<"!">>, token |-> <<"!">>, precedence |-> 15, associativity |-> "prefix", reduce |-> "calc"],
       [key |-> <<"~">>, token |-> <<"~">>, precedence |-> 15, associativity |-> "prefix", reduce |-> "calc"],
       [key |-> <<"+">>, token |-> <<"+">>, precedence |-> 15, associativity |-> "prefix", reduce |-> "calc"],
       [key |-> <<"-">>, token |-> <<"-">>, precedence |-> 15, associativity |-> "prefix", reduce |-> "calc"],
       [key |-> <<"+", "+">>, token |-> <<"+", "+">>, precedence |-> 15, associativity |-> "prefix", reduce |-> "variable"],
       [key |-> <<"-", "-">>, token |-> <<"-", "-">>, precedence |-> 15, associativity |-> "prefix", reduce |-> "variable"]
    >>

\* addDefaultOperators, the entries with associativity postfix
DefaultPostfixOperators ==
    <<
       [key |-> <<"sq">>, token |-> <<"sq">>, precedence |-> 16, associativity |-> "postfix", reduce |-> "calc"],
       [key |-> <<"cu">>, token |-> <<"cu">>, precedence |-> 16, associativity |-> "postfix", reduce |-> "calc"],
       [key |-> <<"+", "+">>, token |-> <<"+", "+">>, precedence |-> 16, associativity |-> "postfix", reduce |-> "variable"],
       [key |-> <<"-", "-">>, token |-> <<"-", "-">>, precedence |-> 16, associativity |-> "postfix", reduce |-> "variable"],
       [key |-> <<"!">>, token |-> <<"!">>, precedence |-> 16, associativity |-> "postfix", reduce |-> "calc"]
    >>

\* addDefaultOperators, the entries with associativity left or right
DefaultBinaryOperators ==
    <<
       [key |-> <<",">>, token |-> <<",">>, precedence |-> 0, associativity |-> "left", reduce |-> "comma"],
       [key |-> <<"=">>, token |-> <<"=">>, precedence |-> 1, associativity |-> "right", reduce |-> "assign"],
       [key |-> <<"|", "|">>, token |-> <<"|", "|">>, precedence |-> 3, associativity |-> "left", reduce |-> "or"],
       [key |-> <<"&", "&">>, token |-> <<"&", "&">>, precedence |-> 4, associativity |-> "left", reduce |-> "and"],
       [key |-> <<"?", "?">>, token |-> <<"?", "?">>, precedence |-> 5, associativity |-> "left", reduce |-> "coalesce"],
       [key |-> <<"|">>, token |-> <<"|">>, precedence |-> 6, associativity |-> "left", reduce |-> "calc"],
       [key |-> <<"^">>, token |-> <<"^">>, precedence |-> 7, associativity |-> "left", reduce |-> "calc"],
       [key |-> <<"&">>, token |-> <<"&">>, precedence |-> 8, associativity |-> "left", reduce |-> "calc"],
       [key |-> <<"=", "=", "=">>, token |-> <<"=", "=", "=">>, precedence |-> 9, associativity |-> "left", reduce |-> "calc"],
       [key |-> <<"!", "=", "=">>, token |-> <<"!", "=", "=">>, precedence |-> 9, associativity |-> "left", reduce |-> "calc"],
       [key |-> <<"=", "=">>, token |-> <<"=", "=">>, precedence |-> 9, associativity |-> "left", reduce |-> "calc"],
       [key |-> <<"!", "=">>, token |-> <<"!", "=">>, precedence |-> 9, associativity |-> "left", reduce |-> "calc"],
       [key |-> <<"<">>, token |-> <<"<">>, precedence |-> 10, associativity |-> "left", reduce |-> "calc"],
       [key |-> <<">">>, token |-> <<">">>, precedence |-> 10, associativity |-> "left", reduce |-> "calc"],
       [key |-> <<"<", "=">>, token |-> <<"<", "=">>, precedence |-> 10, associativity |-> "left", reduce |-> "calc"],
       [key |-> <<">", "=">>, token |-> <<">", "=">>, precedence |-> 10, associativity |-> "left", reduce |-> "calc"],
       [key |-> <<"in">>, token |-> <<"in">>, precedence |-> 10, associativity |-> "left", reduce |-> "in"],
       [key |-> <<"<", "<">>, token |-> <<"<", "<">>, precedence |-> 11, associativity |-> "left", reduce |-> "calc"],
       [key |-> <<">", ">">>, token |-> <<">", ">">>, precedence |-> 11, associativity |-> "left", reduce |-> "calc"],
       [key |-> <<">", ">", ">">>, token |-> <<">", ">", ">">>, precedence |-> 11, associativity |-> "left", reduce |-> "calc"],
       [key |-> <<"+">>, token |-> <<"+">>, precedence |-> 12, associativity |-> "left", reduce |-> "calc"],
       [key |-> <<"-">>, token |-> <<"-">>, precedence |-> 12, associativity |-> "left", reduce |-> "calc"],
       [key |-> <<"*">>, token |-> <<"*">>, precedence |-> 13, associativity |-> "left", reduce |-> "calc"],
       [key |-> <<"/">>, token |-> <<"/">>, precedence |-> 13, associativity |-> "left", reduce |-> "calc"],
       [key |-> <<"%">>, token |-> <<"%">>, precedence |-> 13, associativity |-> "left", reduce |-> "calc"],
       [key |-> <<"*", "*">>, token |-> <<"*", "*">>, precedence |-> 14, associativity |-> "right", reduce |-> "calc"]
    >>

\* addDefaultFunctions without moment
DefaultFunctions ==
    <<
       [key |-> <<"r", "a", "n", "d", "o", "m">>, token |-> <<"r", "a", "n", "d", "o", "m">>, reduce |-> "calc"],
       [key |-> <<"a", "b", "s">>, token |-> <<"a", "b", "s">>, reduce |-> "calc"],
       [key |-> <<"c", "o", "s">>, token |-> <<"c", "o", "s">>, reduce |-> "calc"],
       [key |-> <<"s", "i", "n">>, token |-> <<"s", "i", "n">>, reduce |-> "calc"],
       [key |-> <<"t", "a", "n">>, token |-> <<"t", "a", "n">>, reduce |-> "calc"],
       [key |-> <<"a", "c", "o", "s">>, token |-> <<"a", "c", "o", "s">>, reduce |-> "calc"],
       [key |-> <<"a", "s", "i", "n">>, token |-> <<"a", "s", "i", "n">>, reduce |-> "calc"],
       [key |-> <<"a", "t", "a", "n">>, token |-> <<"a", "t", "a", "n">>, reduce |-> "calc"],
       [key |-> <<"e", "x", "p">>, token |-> <<"e", "x", "p">>, reduce |-> "calc"],
       [key |-> <<"l", "o", "g">>, token |-> <<"l", "o", "g">>, reduce |-> "calc"],
       [key |-> <<"s", "q", "r", "t">>, token |-> <<"s", "q", "r", "t">>, reduce |-> "calc"],
       [key |-> <<"c", "e", "i", "l">>, token |-> <<"c", "e", "i", "l">>, reduce |-> "calc"],
       [key |-> <<"f", "l", "o", "o", "r">>, token |-> <<"f", "l", "o", "o", "r">>, reduce |-> "calc"],
       [key |-> <<"r", "o", "u", "n", "d">>, token |-> <<"r", "o", "u", "n", "d">>, reduce |-> "calc"],
       [key |-> <<"p", "o", "w">>, token |-> <<"p", "o", "w">>, reduce |-> "calc"],
       [key |-> <<"a", "t", "a", "n", "2">>, token |-> <<"a", "t", "a", "n", "2">>, reduce |-> "calc"],
       [key |-> <<"m", "i", "n">>, token |-> <<"m", "i", "n">>, reduce |-> "calc"],
       [key |-> <<"m", "a", "x">>, token |-> <<"m", "a", "x">>, reduce |-> "calc"],
       [key |-> <<"c", "b", "r", "t">>, token |-> <<"c", "b", "r", "t">>, reduce |-> "calc"],
       [key |-> <<"i", "f">>, token |-> <<"i", "f">>, reduce |-> "if"]
    >>

\* Functions an embedder registers with addFunction(token, params, undefined, calculate):
\* effect() has an observable side effect and resolves at once, fail() rejects at
\* once, slow(x) is asynchronous and invokes resolve or reject later (the
\* myAsyncFunc of the CalculatorFunction documentation).
EmbedderFunctions ==
    <<
       [key |-> <<"e", "f", "f", "e", "c", "t">>, token |-> <<"e", "f", "f", "e", "c", "t">>, reduce |-> "calc"],
       [key |-> <<"f", "a", "i", "l">>, token |-> <<"f", "a", "i", "l">>, reduce |-> "calc"],
       [key |-> <<"s", "l", "o", "w">>, token |-> <<"s", "l", "o", "w">>, reduce |-> "calc"]
    >>

PiToken == <<"p", "i">>
EToken == <<"e">>
MemToken == <<"m", "e", "m">>

\* addDefaultLiterals: pi and e are constants, mem is editable and starts as null
DefaultLiterals ==
    <<
       [key |-> PiToken, token |-> PiToken, type |-> "float", value |-> Frac(3, <<"1", "4", "1", "5", "9">>),
        editable |-> FALSE, notResolved |-> FALSE],
       [key |-> EToken, token |-> EToken, type |-> "float", value |-> Frac(2, <<"7", "1", "8", "2", "8">>),
        editable |-> FALSE, notResolved |-> FALSE],
       [key |-> MemToken, token |-> MemToken, type |-> "null", value |-> Null, editable |-> TRUE, notResolved |-> FALSE]
    >>

\* Object.prototype.hasOwnProperty on a table
HasOwn(table, key) == \E i \in 1..Len(table) : table[i].key = key

\* table[key]
Get(table, key) == table[CHOOSE i \in 1..Len(table) : table[i].key = key]

\* a variant of Put in which the entry of an existing key is kept
PutOnce(table, entry) ==
    IF HasOwn(table, ToLowerCase(entry.token)) THEN table
    ELSE Append(table, [entry EXCEPT !.key = ToLowerCase(entry.token)])

\* table[key] = entry: a new key is appended, an existing key keeps its place
Put(table, entry) ==
    LET key == ToLowerCase(entry.token)
        stored == [entry EXCEPT !.key = key]
    IN  IF HasOwn(table, key)
        THEN [i \in 1..Len(table) |-> IF table[i].key = key THEN stored ELSE table[i]]
        ELSE Append(table, stored)

\* new Calculator()
NewCalculator ==
    [types |-> <<>>,
     literals |-> <<>>,
     functions |-> <<>>,
     prefixOperators |-> <<>>,
     postfixOperators |-> <<>>,
     binaryOperators |-> <<>>]

\* Calculator.prototype.addLiteral
addLiteral(calculator, entry) == [calculator EXCEPT !.literals = Put(@, entry)]

\* Calculator.prototype.addFunction
addFunction(calculator, entry) == [calculator EXCEPT !.functions = Put(@, entry)]

\* Calculator.prototype.addOperator
addOperator(calculator, entry) ==
    IF entry.associativity = "prefix"
    THEN [calculator EXCEPT !.prefixOperators = Put(@, entry)]
    ELSE IF entry.associativity = "postfix"
    THEN [calculator EXCEPT !.postfixOperators = Put(@, entry)]
    ELSE [calculator EXCEPT !.binaryOperators = Put(@, entry)]

\* new Calculator() with the default grammar and the embedder's functions
DefaultCalculator ==
    [types |-> DefaultTypes,
     literals |-> DefaultLiterals,
     functions |-> DefaultFunctions \o EmbedderFunctions,
     prefixOperators |-> DefaultPrefixOperators,
     postfixOperators |-> DefaultPostfixOperators,
     binaryOperators |-> DefaultBinaryOperators]


(***************************************************************************)
(* CalculatorError and the parser's results.  A step of the parser         *)
(* returns [ok |-> TRUE, ...] or, where the source throws, the error.      *)
(***************************************************************************)
EndOfFormula == "End of formula has been reached"
UnterminatedString == "Un-terminated string started at position %0"
UnexpectedToken == "Found \"%1\" but expecting \"%2\" at position %0"
ExpectedValue == "Expecting a value but found \"%1\" at position %0"

\* CalculatorParser.prototype.error: throw new CalculatorError(formula, index, tokenLength, ...)
Error(P, index, tokenLength, message, found) ==
    [ok |-> FALSE,
     error |-> [formula |-> P.formula, index |-> index, length |-> tokenLength,
                message |-> message, found |-> found]]

\* the separators built by the CalculatorParser constructor
Separators(calculator) ==
    <<<<"(">>, <<")">>, <<"[">>, <<"]">>, <<" ">>>>
    \o [i \in 1..Len(calculator.prefixOperators) |-> calculator.prefixOperators[i].key]
    \o [i \in 1..Len(calculator.postfixOperators) |-> calculator.postfixOperators[i].key]
    \o [i \in 1..Len(calculator.binaryOperators) |-> calculator.binaryOperators[i].key]

\* new CalculatorParser(calculator, formula)
CalculatorParser(calculator, f) ==
    [types |-> calculator.types,
     literals |-> calculator.literals,
     functions |-> calculator.functions,
     prefixOperators |-> calculator.prefixOperators,
     postfixOperators |-> calculator.postfixOperators,
     binaryOperators |-> calculator.binaryOperators,
     formula |-> Trim(f),
     separators |-> Separators(calculator)]

(***************************************************************************)
(* Tokenizer                                                               *)
(***************************************************************************)

RECURSIVE StringEndAtAnyQuote(_, _, _)
\* a variant of StringEnd in which a backslash does not protect the quote after it
StringEndAtAnyQuote(f, i, previous) ==
    IF i < Len(f) /\ f[i + 1] # "\""
    THEN StringEndAtAnyQuote(f, i + 1, f[i + 1])
    ELSE i

\* next(): the scan for the closing quote, from position i
RECURSIVE StringEnd(_, _, _)
StringEnd(f, i, previous) ==
    IF i < Len(f) /\ (f[i + 1] # "\"" \/ previous = "\\")
    THEN StringEnd(f, i + 1, f[i + 1])
    ELSE i

\* whether one of the separators occurs in f at position p
SeparatorAt(f, separators, p) ==
    \E i \in 1..Len(separators) : StartsAt(f, separators[i], p)

\* a variant of SeparatorScan that keeps the length of the first separator found
\* at the least position
SeparatorScanFirst(f, separators, from) ==
    IF \E p \in from..(Len(f) - 1) : SeparatorAt(f, separators, p)
    THEN Bind(CHOOSE p \in from..(Len(f) - 1) :
                 /\ SeparatorAt(f, separators, p)
                 /\ \A q \in from..(p - 1) : ~SeparatorAt(f, separators, q),
              LAMBDA index :
                 [index |-> index,
                  length |-> Len(separators[CHOOSE i \in 1..Len(separators) :
                      /\ StartsAt(f, separators[i], index)
                      /\ \A j \in 1..(i - 1) : ~StartsAt(f, separators[j], index)])])
    ELSE [index |-> -1, length |-> 0]

\* next(): the loop over the separators and the two variables it leaves: index, the
\* least indexOf(separator, from) that is not -1, and length, the greatest length
\* among the separators found at index
SeparatorScan(f, separators, from) ==
    IF \E p \in from..(Len(f) - 1) : SeparatorAt(f, separators, p)
    THEN Bind(CHOOSE p \in from..(Len(f) - 1) :
                 /\ SeparatorAt(f, separators, p)
                 /\ \A q \in from..(p - 1) : ~SeparatorAt(f, separators, q),
              LAMBDA index :
                 [index |-> index,
                  length |-> CHOOSE n \in 1..Len(f) :
                      /\ \E i \in 1..Len(separators) :
                            Len(separators[i]) = n /\ StartsAt(f, separators[i], index)
                      /\ \A i \in 1..Len(separators) :
                            StartsAt(f, separators[i], index) => Len(separators[i]) <= n])
    ELSE [index |-> -1, length |-> 0]

\* CalculatorParser.prototype.next at position index
next(P, index) ==
    LET f == P.formula
    IN  IF index > Len(f) THEN Error(P, index, 0, EndOfFormula, <<>>)
        ELSE IF index = Len(f) THEN [ok |-> TRUE, token |-> <<>>]
        ELSE IF f[index + 1] = "\""
        THEN Bind(StringEnd(f, index + 1, ""), LAMBDA i :
                IF i = Len(f) THEN Error(P, index, i - index, UnterminatedString, <<>>)
                ELSE [ok |-> TRUE, token |-> Substring(f, index, i + 1)])
        ELSE Bind(SeparatorScan(f, P.separators, index), LAMBDA s :
                IF s.index = -1 THEN [ok |-> TRUE, token |-> Substring(f, index, Len(f))]
                ELSE IF s.index = index
                THEN [ok |-> TRUE, token |-> Substring(f, index, index + s.length)]
                ELSE [ok |-> TRUE, token |-> Trim(Substring(f, index, s.index))])

\* consume(): the loop that skips the plain spaces
RECURSIVE SkipSpaces(_, _)
SkipSpaces(f, i) == IF i < Len(f) /\ f[i + 1] = " " THEN SkipSpaces(f, i + 1) ELSE i

\* a variant of consume that leaves the parser where it is
ConsumeNothing(P, index, t) == index

\* CalculatorParser.prototype.consume at position index: the new position.
\* consume is only ever called with the token next() has just returned.
consume(P, index, t) ==
    IF t # <<>> THEN SkipSpaces(P.formula, index + Len(t))
    ELSE Bind(next(P, index), LAMBDA n :
            SkipSpaces(P.formula, index + (IF n.ok THEN Len(n.token) ELSE 0)))

\* CalculatorParser.prototype.expect at position index
expect(P, index, t) ==
    Bind(next(P, index), LAMBDA n :
        IF ~n.ok THEN n
        ELSE IF n.token = t THEN [ok |-> TRUE, index |-> consume(P, index, n.token)]
        ELSE Error(P, index, Len(n.token), UnexpectedToken, n.token))


(***************************************************************************)
(* CalculatorTree.  source holds the key of the literal, operator or       *)
(* function entry the node refers to (the table is given by the kind); a   *)
(* token that is undefined in the source is the empty sequence here.       *)
(***************************************************************************)
newConstant(type, value, token) ==
    [kind |-> "constant", type |-> type, value |-> value, token |-> token]
newLiteral(literal, token) == [kind |-> "literal", source |-> literal.key, token |-> token]
newArray(params) == [kind |-> "array", params |-> params]
newGrouping(left) == [kind |-> "grouping", left |-> left]
newBinary(operator, left, right, token) ==
    [kind |-> "binary", source |-> operator.key, left |-> left, right |-> right,
     token |-> token]
newPrefix(operator, right, token) ==
    [kind |-> "prefix", source |-> operator.key, right |-> right, token |-> token]
newPostfix(operator, left, token) ==
    [kind |-> "postfix", source |-> operator.key, left |-> left, token |-> token]
newFunction(func, params, token) ==
    [kind |-> "function", source |-> func.key, params |-> params, token |-> token]

(***************************************************************************)
(* Parser.  Exp, Primary, Array and Literal take the position as an        *)
(* argument and return the tree with the position reached.                 *)
(***************************************************************************)

\* a variant of TypeScan in which a token no type accepts is taken as a string
TypeScanAsText(P, index, token) ==
    [ok |-> TRUE, tree |-> newConstant("string", Str(token), token)]

\* Literal(): the loop over the type supports, which returns at the first type
\* whose parse accepts the token
TypeScan(P, index, token) ==
    IF \E i \in 1..Len(P.types) : TypeParse(P.types[i], token) # Undefined
    THEN Bind(CHOOSE i \in 1..Len(P.types) :
                 /\ TypeParse(P.types[i], token) # Undefined
                 /\ \A j \in 1..(i - 1) : TypeParse(P.types[j], token) = Undefined,
              LAMBDA i :
                 [ok |-> TRUE,
                  tree |-> newConstant(P.types[i], TypeParse(P.types[i], token), token)])
    ELSE Error(P, index, Len(token), ExpectedValue, token)

\* CalculatorParser.prototype.Literal
Literal(P, index, token) ==
    Bind(ToLowerCase(token), LAMBDA tokenLC :
        IF \/ HasOwn(P.functions, tokenLC)
           \/ \E i \in 1..Len(P.separators) : P.separators[i] = tokenLC
        THEN Error(P, index, Len(token), ExpectedValue, token)
        ELSE IF HasOwn(P.literals, tokenLC)
        THEN [ok |-> TRUE, tree |-> newLiteral(Get(P.literals, tokenLC), token)]
        ELSE TypeScan(P, index, token))

\* Array(): the local function add, which flattens a chain of "," nodes
RECURSIVE FlattenComma(_)
FlattenComma(tree) ==
    IF tree.kind = "binary" /\ tree.token = <<",">>
    THEN Append(FlattenComma(tree.left), tree.right)
    ELSE <<tree>>

RECURSIVE Exp(_, _, _)
RECURSIVE ExpBinaryLoop(_, _, _, _)
RECURSIVE ExpPostfixLoop(_, _, _)
RECURSIVE Primary(_, _)
RECURSIVE Array(_, _, _)

\* CalculatorParser.prototype.Exp: the second loop, on the postfix operators
ExpPostfixLoop(P, index, tree) ==
    Bind(next(P, index), LAMBDA n :
        IF ~n.ok THEN n
        ELSE Bind(ToLowerCase(n.token), LAMBDA token :
            IF HasOwn(P.postfixOperators, token)
            THEN ExpPostfixLoop(P, consume(P, index, token),
                                newPostfix(Get(P.postfixOperators, token), tree, token))
            ELSE [ok |-> TRUE, tree |-> tree, index |-> index]))

\* a variant of RightPrecedence that forgets the associativity
SamePrecedence(op) == op.precedence

\* CalculatorParser.prototype.Exp: "q", the precedence accepted for an operator on
\* the right side of the binary operator op
RightPrecedence(op) ==
    IF op.associativity = "left" THEN op.precedence + 1 ELSE op.precedence

\* CalculatorParser.prototype.Exp: the first loop, on the binary operators
ExpBinaryLoop(P, index, tree, p) ==
    Bind(next(P, index), LAMBDA n :
        IF ~n.ok THEN n
        ELSE Bind(ToLowerCase(n.token), LAMBDA token :
            IF /\ HasOwn(P.binaryOperators, token)
               /\ Get(P.binaryOperators, token).precedence >= p
            THEN Bind(Get(P.binaryOperators, token), LAMBDA op :
                 Bind(Exp(P, consume(P, index, token), RightPrecedence(op)), LAMBDA right :
                    IF ~right.ok THEN right
                    ELSE ExpBinaryLoop(P, right.index,
                                       newBinary(op, tree, right.tree, token), p)))
            ELSE ExpPostfixLoop(P, index, tree)))

\* CalculatorParser.prototype.Exp
Exp(P, index, p) ==
    Bind(Primary(P, index), LAMBDA tree :
        IF ~tree.ok THEN tree
        ELSE ExpBinaryLoop(P, tree.index, tree.tree, p))

\* CalculatorParser.prototype.Primary: the token is a prefix operator
PrimaryPrefix(P, index, token, op) ==
    Bind(Exp(P, consume(P, index, token), op.precedence), LAMBDA right :
        IF ~right.ok THEN right
        ELSE [ok |-> TRUE, tree |-> newPrefix(op, right.tree, ToLowerCase(token)),
              index |-> right.index])

\* CalculatorParser.prototype.Primary: the token is "("
PrimaryGrouping(P, index, token) ==
    Bind(Exp(P, consume(P, index, token), 0), LAMBDA t :
        IF ~t.ok THEN t
        ELSE Bind(expect(P, t.index, <<")">>), LAMBDA close :
            IF ~close.ok THEN close
            ELSE [ok |-> TRUE, tree |-> newGrouping(t.tree), index |-> close.index]))

\* CalculatorParser.prototype.Primary: the token is "["
PrimaryArray(P, index, token) ==
    Bind(Array(P, consume(P, index, token), <<"]">>), LAMBDA a :
        IF ~a.ok THEN a
        ELSE [ok |-> TRUE, tree |-> newArray(a.params), index |-> a.index])

\* CalculatorParser.prototype.Primary: the token is the name of a function
PrimaryFunction(P, index, token, func) ==
    Bind(expect(P, consume(P, index, token), <<"(">>), LAMBDA open :
        IF ~open.ok THEN open
        ELSE Bind(Array(P, open.index, <<")">>), LAMBDA a :
            IF ~a.ok THEN a
            ELSE [ok |-> TRUE, tree |-> newFunction(func, a.params, token),
                  index |-> a.index]))

\* CalculatorParser.prototype.Primary: the token is a value
PrimaryLiteral(P, index, token) ==
    Bind(Literal(P, index, token), LAMBDA left :
        IF ~left.ok THEN left
        ELSE [ok |-> TRUE, tree |-> left.tree, index |-> consume(P, index, token)])

\* CalculatorParser.prototype.Primary
Primary(P, index) ==
    Bind(next(P, index), LAMBDA n :
        IF ~n.ok THEN n
        ELSE Bind(ToLowerCase(n.token), LAMBDA tokenLC :
            IF HasOwn(P.prefixOperators, tokenLC)
            THEN PrimaryPrefix(P, index, n.token, Get(P.prefixOperators, tokenLC))
            ELSE IF n.token = <<"(">> THEN PrimaryGrouping(P, index, n.token)
            ELSE IF n.token = <<"[">> THEN PrimaryArray(P, index, n.token)
            ELSE IF HasOwn(P.functions, tokenLC)
            THEN PrimaryFunction(P, index, n.token, Get(P.functions, tokenLC))
            ELSE PrimaryLiteral(P, index, n.token)))

\* CalculatorParser.prototype.Array
Array(P, index, lastToken) ==
    Bind(next(P, index), LAMBDA n :
        IF ~n.ok THEN n
        ELSE IF n.token = lastToken
        THEN [ok |-> TRUE, params |-> <<>>, index |-> consume(P, index, n.token)]
        ELSE Bind(Exp(P, index, 0), LAMBDA t :
            IF ~t.ok THEN t
            ELSE Bind(expect(P, t.index, lastToken), LAMBDA close :
                IF ~close.ok THEN close
                ELSE [ok |-> TRUE, params |-> FlattenComma(t.tree),
                      index |-> close.index])))

\* CalculatorParser.prototype.parse; index is the position at which parse returns
ParserParse(P) ==
    Bind(Exp(P, 0, 0), LAMBDA tree :
        IF ~tree.ok THEN tree
        ELSE Bind(expect(P, tree.index, <<>>), LAMBDA end :
            IF ~end.ok THEN end
            ELSE [ok |-> TRUE, tree |-> tree.tree, index |-> end.index]))

\* Calculator.prototype.parse
parse(calculator, f) == Bind(CalculatorParser(calculator, f), LAMBDA P : ParserParse(P))

(***************************************************************************)
(* Formatter                                                               *)
(***************************************************************************)
RECURSIVE Join(_, _)
\* Array.prototype.join on a sequence of strings
Join(strings, sep) ==
    IF strings = <<>> THEN <<>>
    ELSE IF Len(strings) = 1 THEN strings[1]
    ELSE strings[1] \o sep \o Join(Tail(strings), sep)

\* tree.token || tree.source.token
TokenOf(table, tree) == IF tree.token # <<>> THEN tree.token ELSE Get(table, tree.source).token

RECURSIVE format(_, _)
\* Calculator.prototype.format
format(calculator, tree) ==
    CASE tree.kind = "constant" -> TypeFormat(tree.type, tree.value)
      [] tree.kind = "literal" -> TokenOf(calculator.literals, tree)
      [] tree.kind = "array" ->
            <<"[">>
            \o Join([i \in 1..Len(tree.params) |-> format(calculator, tree.params[i])],
                    <<",", " ">>)
            \o <<"]">>
      [] tree.kind = "grouping" -> <<"(">> \o format(calculator, tree.left) \o <<")">>
      [] tree.kind = "binary" ->
            format(calculator, tree.left) \o <<" ">>
            \o TokenOf(calculator.binaryOperators, tree) \o <<" ">>
            \o format(calculator, tree.right)
      [] tree.kind = "prefix" ->
            TokenOf(calculator.prefixOperators, tree) \o format(calculator, tree.right)
      [] tree.kind = "postfix" ->
            format(calculator, tree.left) \o TokenOf(calculator.postfixOperators, tree)
      [] tree.kind = "function" ->
            TokenOf(calculator.functions, tree) \o <<"(">>
            \o Join([i \in 1..Len(tree.params) |-> format(calculator, tree.params[i])],
                    <<",", " ">>)
            \o <<")">>


(***************************************************************************)
(* Reduction.  context.reduce is written in continuation-passing style;    *)
(* the model runs it on a record S that holds everything a run reads or    *)
(* writes, and names each callback by the place of the node it belongs to: *)
(* a path is the sequence of child numbers from the root of the tree       *)
(* handed to reduce (left, or the only operand, is 1; right is 2; params   *)
(* are numbered from 1).  Every call of context.reduce made while a tree   *)
(* is reduced is a call on one of its sub-trees.                           *)
(*                                                                         *)
(*   S.calculator  the registry, with the literals' current value and type *)
(*   S.frames      the variables captured by the callbacks of the node at  *)
(*                 a path: count and values of its reduceAll, the reduced  *)
(*                 left operand (a) of a logical operator, the mode of if  *)
(*   S.pending     the paths of the asynchronous functions called and not  *)
(*                 yet completed, with the values they were called on      *)
(*   S.resolved    the trees the caller's resolve was invoked with         *)
(*   S.rejected    the errors the caller's reject was invoked with         *)
(*   S.visited     the paths context.reduce was called on                  *)
(*   S.effects     how many times effect() ran                             *)
(*   S.completed   the asynchronous functions that completed, in order:    *)
(*                 the path of each and the callback it invoked            *)
(*   S.ended       "no", or how the run was cut short: "exception" (a      *)
(*                 JavaScript exception) or "hang" (a loop never ends)     *)
(***************************************************************************)
NoFrames == [p \in {} |-> <<>>]

\* a variant of NewRun in which every context starts from the default registry
NewRunForgetting(calculator) ==
    [calculator |-> DefaultCalculator, frames |-> NoFrames, pending |-> NoFrames,
     resolved |-> <<>>, rejected |-> <<>>, visited |-> {}, effects |-> 0,
     completed |-> <<>>, ended |-> "no"]

\* new CalculatorContext(calculator), and what the caller's callbacks have received
NewRun(calculator) ==
    [calculator |-> calculator, frames |-> NoFrames, pending |-> NoFrames,
     resolved |-> <<>>, rejected |-> <<>>, visited |-> {}, effects |-> 0,
     completed |-> <<>>, ended |-> "no"]

\* the i-th sub-tree of a node
Child(node, i) ==
    CASE node.kind \in {"array", "function"} -> node.params[i]
      [] node.kind \in {"grouping", "postfix"} -> node.left
      [] node.kind = "prefix" -> node.right
      [] node.kind = "binary" -> IF i = 1 THEN node.left ELSE node.right

RECURSIVE At(_, _)
\* the sub-tree of root at path
At(root, path) == IF path = <<>> THEN root ELSE At(Child(root, Head(path)), Tail(path))

Parent(path) == SubSeq(path, 1, Len(path) - 1)
Last(path) == path[Len(path)]

\* the entry a node's source refers to
SourceOf(calculator, node) ==
    CASE node.kind = "literal" -> Get(calculator.literals, node.source)
      [] node.kind = "binary" -> Get(calculator.binaryOperators, node.source)
      [] node.kind = "prefix" -> Get(calculator.prefixOperators, node.source)
      [] node.kind = "postfix" -> Get(calculator.postfixOperators, node.source)
      [] node.kind = "function" -> Get(calculator.functions, node.source)

\* CalculatorTree.prototype.isValue
isValue(calculator, tree) ==
    \/ tree.kind = "constant"
    \/ tree.kind = "literal" /\ ~SourceOf(calculator, tree).notResolved

\* CalculatorTree.prototype.getValue
getValue(calculator, tree) ==
    IF tree.kind = "constant" THEN tree.value ELSE SourceOf(calculator, tree).value

\* CalculatorTree.prototype.getType
getType(calculator, tree) ==
    IF tree.kind = "constant" THEN tree.type ELSE SourceOf(calculator, tree).type

\* the setter the CalculatorLiteral constructor builds, then source.type = type
SetLiteral(calculator, key, value, type) ==
    [calculator EXCEPT !.literals =
        [i \in 1..Len(@) |->
            IF @[i].key = key THEN [@[i] EXCEPT !.value = value, !.type = type] ELSE @[i]]]


(***************************************************************************)
(* The calculate procedures of addDefaultOperators and addDefaultFunctions *)
(* on the values the model computes with: integers, booleans, null and     *)
(* strings.  What a calculate does with its callbacks is an outcome:       *)
(* resolve with a constant, reject with an error, stay pending (an         *)
(* asynchronous function), or never return ("hang").                       *)
(***************************************************************************)
ResolveWith(type, value) == [do |-> "resolve", tree |-> newConstant(type, value, <<>>)]
RejectWith(error) == [do |-> "reject", error |-> error]

\* ToNumber
ToNumber(v) ==
    CASE v.k = "num" -> v.n
      [] v.k = "bool" -> IF v.b THEN 1 ELSE 0
      [] v.k = "null" -> 0

\* ToString on a value
ToText(v) ==
    CASE v.k = "str" -> v.s
      [] v.k = "num" -> Signed(<<>>, v.n, 10)
      [] v.k = "bool" -> IF v.b THEN TrueToken ELSE FalseToken
      [] v.k = "null" -> NullToken

\* a variant of Math.pow that multiplies instead
PowTimes(a, b) == a * b

\* Math.pow(a, b) for an integer b >= 0
RECURSIVE Pow(_, _)
Pow(a, b) == IF b = 0 THEN 1 ELSE a * Pow(a, b - 1)

\* a == b
LooseEquals(a, b) ==
    IF a.k = b.k THEN a = b
    ELSE IF a.k = "null" \/ b.k = "null" THEN FALSE
    ELSE ToNumber(a) = ToNumber(b)

\* a + b: number addition and string concatenation
Add(a, b) ==
    IF a.k = "str" \/ b.k = "str"
    THEN Str(ToText(a) \o ToText(b))
    ELSE Num(ToNumber(a) + ToNumber(b))

\* a variant of the calculate of "+" that types every result as it types a sum
AddCalculateFloat(a, b) == ResolveWith("float", Add(a, b))

\* the calculate of the binary "+":
\* typeof value === 'string' ? stringType : floatType
AddCalculate(a, b) ==
    Bind(Add(a, b),
         LAMBDA value : ResolveWith(IF value.k = "str" THEN "string" ELSE "float", value))

\* the calculate of the binary operator key, through the helper binary(type, calculate)
BinaryCalculate(key, a, b) ==
    CASE key = <<"+">> -> AddCalculate(a, b)
      [] key = <<"-">> -> ResolveWith("float", Num(ToNumber(a) - ToNumber(b)))
      [] key = <<"*">> -> ResolveWith("float", Num(ToNumber(a) * ToNumber(b)))
      [] key = <<"*", "*">> -> ResolveWith("float", Num(Pow(ToNumber(a), ToNumber(b))))
      [] key = <<"=", "=", "=">> -> ResolveWith("boolean", Bool(a = b))
      [] key = <<"!", "=", "=">> -> ResolveWith("boolean", Bool(a # b))
      [] key = <<"=", "=">> -> ResolveWith("boolean", Bool(LooseEquals(a, b)))
      [] key = <<"!", "=">> -> ResolveWith("boolean", Bool(~LooseEquals(a, b)))
      [] key = <<"<">> -> ResolveWith("boolean", Bool(ToNumber(a) < ToNumber(b)))
      [] key = <<">">> -> ResolveWith("boolean", Bool(ToNumber(a) > ToNumber(b)))
      [] key = <<"<", "=">> -> ResolveWith("boolean", Bool(ToNumber(a) <= ToNumber(b)))
      [] key = <<">", "=">> -> ResolveWith("boolean", Bool(ToNumber(a) >= ToNumber(b)))

RECURSIVE FactorialSum(_, _)
\* a variant of the loop that adds instead
FactorialSum(result, v) == IF v # 0 THEN FactorialSum(result + v, v - 1) ELSE result

\* the loop of the postfix "!": while (v !== 0) result *= v--
RECURSIVE FactorialLoop(_, _)
FactorialLoop(result, v) == IF v # 0 THEN FactorialLoop(result * v, v - 1) ELSE result

\* the calculate of the prefix operator key, through the helper unary(type, calculate)
PrefixCalculate(key, type, a) ==
    CASE key = <<"!">> -> ResolveWith("boolean", Bool(~Truthy(a)))
      [] key = <<"~">> -> ResolveWith(type, Num(-ToNumber(a) - 1))
      [] key = <<"+">> -> ResolveWith(type, Num(ToNumber(a)))
      [] key = <<"-">> -> ResolveWith(type, Num(-ToNumber(a)))

\* the calculate of the postfix operator key, through the helper unary(type, calculate)
PostfixCalculate(key, type, a) ==
    CASE key = <<"sq">> -> ResolveWith(type, Num(Pow(ToNumber(a), 2)))
      [] key = <<"cu">> -> ResolveWith(type, Num(Pow(ToNumber(a), 3)))
      [] key = <<"!">> ->
            IF ToNumber(a) < 0 THEN [do |-> "hang"]
            ELSE ResolveWith("integer", Num(FactorialLoop(1, ToNumber(a))))

Min(a, b) == IF a <= b THEN a ELSE b

RECURSIVE Fold(_, _, _)
\* Math.min and Math.max on a non-empty list of numbers
Fold(key, values, k) ==
    IF k = Len(values) THEN ToNumber(values[k])
    ELSE IF key = <<"m", "i", "n">> THEN Min(ToNumber(values[k]), Fold(key, values, k + 1))
    ELSE Max(ToNumber(values[k]), Fold(key, values, k + 1))

\* the calculate of the function key on its reduced params: addFromMath for the
\* functions of Math, and the embedder's three functions
FunctionCalculate(key, types, values) ==
    CASE key = <<"a", "b", "s">> -> ResolveWith(types[1], Num(Abs(ToNumber(values[1]))))
      [] key \in {<<"c", "e", "i", "l">>, <<"f", "l", "o", "o", "r">>, <<"r", "o", "u", "n", "d">>} ->
            ResolveWith("integer", Num(ToNumber(values[1])))
      [] key = <<"p", "o", "w">> ->
            ResolveWith("float", Num(Pow(ToNumber(values[1]), ToNumber(values[2]))))
      [] key \in {<<"m", "i", "n">>, <<"m", "a", "x">>} ->
            ResolveWith(IF \E i \in 1..Len(types) : types[i] = "float" THEN "float"
                        ELSE "integer",
                        Num(Fold(key, values, 1)))
      [] key = <<"e", "f", "f", "e", "c", "t">> -> ResolveWith("boolean", Bool(TRUE))
      [] key = <<"f", "a", "i", "l">> -> RejectWith("failed")
      [] key = <<"s", "l", "o", "w">> -> [do |-> "pending"]


(***************************************************************************)
(* The reduction engine.  Each operator below is one function or one       *)
(* callback of the source, applied to the run S; Resolve(S, root, path, r) *)
(* is the resolve callback that was passed to context.reduce for the node  *)
(* at path, and Reject its reject callback.  After an exception nothing    *)
(* more of the run executes.                                               *)
(***************************************************************************)
UndefinedTree == [kind |-> "undefined"]

Frame(S, path) == S.frames[path]
SetFrame(S, path, frame) == [S EXCEPT !.frames = (path :> frame) @@ @]
Throw(S) == [S EXCEPT !.ended = "exception"]
Hang(S) == [S EXCEPT !.ended = "hang"]
Stopped(S) == S.ended # "no"

\* the reduce procedure of the entry the node refers to
ReduceOf(S, node) == SourceOf(S.calculator, node).reduce

\* whether the node at path handed its operands to context.reduceAll
ThroughReduceAll(S, node, path) ==
    \/ node.kind = "array"
    \/ node.kind = "binary" /\ ReduceOf(S, node) \in {"calc", "comma", "in"}
    \/ node.kind = "function" /\ ReduceOf(S, node) = "calc"
    \/ node.kind = "function" /\ ReduceOf(S, node) = "if" /\ Frame(S, path).mode = "both"

\* 1, 2, ... n
RECURSIVE Indices(_)
Indices(n) == IF n = 0 THEN <<>> ELSE Append(Indices(n - 1), n)

\* var values = []; values.length = n
RECURSIVE Undefineds(_)
Undefineds(n) == IF n = 0 THEN <<>> ELSE Append(Undefineds(n - 1), UndefinedTree)

\* the position of operand i in the list handed to reduceAll
PositionOf(idxs, i) == CHOOSE k \in 1..Len(idxs) : idxs[k] = i

RECURSIVE reduce(_, _, _)
RECURSIVE reduceAll(_, _, _, _)
RECURSIVE reduceAllForEach(_, _, _, _, _)
RECURSIVE reduceAllResolve(_, _, _, _, _)
RECURSIVE Resolve(_, _, _, _)
RECURSIVE Reject(_, _, _, _)
RECURSIVE Reduced(_, _, _, _)
RECURSIVE Apply(_, _, _, _)

\* what the code run for the node at path does with the callbacks of the node
Apply(S, root, path, outcome) ==
    CASE outcome.do = "resolve" -> Resolve(S, root, path, outcome.tree)
      [] outcome.do = "reject" -> Reject(S, root, path, outcome.error)
      [] outcome.do = "pending" -> S
      [] outcome.do = "hang" -> Hang(S)
      [] outcome.do = "throw" -> Throw(S)

\* a variant of reduceAllReject that counts the failed element as one more done
reduceAllRejectCounting(S, root, path, error) ==
    Reject(SetFrame(S, path, [Frame(S, path) EXCEPT !.count = @ - 1]), root, path, error)

\* CalculatorContext.prototype.reduceAll: the reject callback given to each element
reduceAllReject(S, root, path, error) ==
    Reject(SetFrame(S, path, [Frame(S, path) EXCEPT !.count = 0]), root, path, error)

\* reduceAll's resolve callback, after values[index] = value: resolve(values) if
\* this is the last one, then count--
reduceAllCount(S, root, path) ==
    Bind(IF Frame(S, path).count = 1
         THEN Reduced(S, root, path, Frame(S, path).values)
         ELSE S, LAMBDA after :
        IF Stopped(after) THEN after
        ELSE SetFrame(after, path, [Frame(after, path) EXCEPT !.count = @ - 1]))

\* a variant of reduceAllResolve that stores the values in the order they arrive
reduceAllResolvePushing(S, root, path, i, value) ==
    reduceAllCount(
        SetFrame(S, path,
                 [Frame(S, path) EXCEPT
                     !.values[Max(1, Min(Len(Frame(S, path).idxs),
                                         Len(Frame(S, path).idxs) - Frame(S, path).count + 1))]
                         = value]),
        root, path)

\* CalculatorContext.prototype.reduceAll: the resolve callback given to the element i
reduceAllResolve(S, root, path, i, value) ==
    reduceAllCount(
        SetFrame(S, path,
                 [Frame(S, path) EXCEPT !.values[PositionOf(Frame(S, path).idxs, i)] = value]),
        root, path)

\* CalculatorContext.prototype.reduceAll: params.forEach, from the k-th element
reduceAllForEach(S, root, path, idxs, k) ==
    IF k > Len(idxs) \/ Stopped(S) THEN S
    ELSE reduceAllForEach(reduce(S, root, Append(path, idxs[k])), root, path, idxs, k + 1)

\* CalculatorContext.prototype.reduceAll, called by the node at path on its operands idxs
reduceAll(S, root, path, idxs) ==
    IF Len(idxs) = 0 THEN Reduced(S, root, path, <<>>)
    ELSE reduceAllForEach(
             SetFrame(S, path, [count |-> Len(idxs), idxs |-> idxs, mode |-> "both",
                                a |-> IF path \in DOMAIN S.frames THEN Frame(S, path).a
                                      ELSE UndefinedTree,
                                values |-> Undefineds(Len(idxs))]),
             root, path, idxs, 1)

\* the "in" operator's callback: the loop over the elements of the right operand
RECURSIVE InLoop(_, _, _, _, _)
InLoop(calculator, params, value, i, hasVariable) ==
    IF i > Len(params) THEN [found |-> FALSE, hasVariable |-> hasVariable]
    ELSE IF ~isValue(calculator, params[i])
    THEN InLoop(calculator, params, value, i + 1, TRUE)
    ELSE IF getValue(calculator, params[i]) = value
    THEN [found |-> TRUE, hasVariable |-> hasVariable]
    ELSE InLoop(calculator, params, value, i + 1, hasVariable)

ResolveTree(tree) == [do |-> "resolve", tree |-> tree]
Throws == [do |-> "throw"]

\* a variant of BinaryReduced that rebuilds the node with its operands exchanged
BinaryReducedSwapped(c, self, values) ==
    IF isValue(c, values[1]) /\ isValue(c, values[2])
    THEN BinaryCalculate(self.key, getValue(c, values[1]), getValue(c, values[2]))
    ELSE ResolveTree(newBinary(self, values[2], values[1], <<>>))

\* defaultBinaryOperatorReduce: the callback given to reduceAll
BinaryReduced(c, self, values) ==
    IF isValue(c, values[1]) /\ isValue(c, values[2])
    THEN BinaryCalculate(self.key, getValue(c, values[1]), getValue(c, values[2]))
    ELSE ResolveTree(newBinary(self, values[1], values[2], <<>>))

\* the "in" operator: the callback given to reduceAll
InReduced(c, self, values) ==
    IF ~isValue(c, values[1])
    THEN ResolveTree(newBinary(self, values[1], values[2], <<>>))
    ELSE IF values[2].kind \notin {"array", "function"} THEN Throws
    ELSE Bind(InLoop(c, values[2].params, getValue(c, values[1]), 1, FALSE), LAMBDA r :
            IF r.found THEN ResolveWith("boolean", Bool(TRUE))
            ELSE IF ~r.hasVariable THEN ResolveWith("boolean", Bool(FALSE))
            ELSE ResolveTree(newBinary(self, values[1], values[2], <<>>)))

\* defaultFunctionReduce: the callback given to reduceAll
FunctionReduced(c, self, values) ==
    IF \A i \in 1..Len(values) : isValue(c, values[i])
    THEN FunctionCalculate(self.key,
                           [i \in 1..Len(values) |-> getType(c, values[i])],
                           [i \in 1..Len(values) |-> getValue(c, values[i])])
    ELSE ResolveTree(newFunction(self, values, <<>>))

\* what the resolve callback the node gave to context.reduceAll does; a is the
\* reduced test of an "if" whose two branches were handed to reduceAll
ReducedOutcome(c, node, a, values) ==
    IF node.kind = "array" THEN ResolveTree(newArray(values))
    ELSE Bind(SourceOf(c, node), LAMBDA self :
        IF self.reduce = "comma" THEN ResolveTree(newArray(values))
        ELSE IF self.reduce = "if"
        THEN ResolveTree(newFunction(self, <<a, values[1], values[2]>>, <<>>))
        ELSE IF \E i \in 1..Len(values) : values[i] = UndefinedTree
        THEN \* isValue() of undefined
             Throws
        ELSE IF node.kind = "function" THEN FunctionReduced(c, self, values)
        ELSE IF self.reduce = "in" THEN InReduced(c, self, values)
        ELSE BinaryReduced(c, self, values))

\* what calling the embedder's functions leaves behind: effect() counts its calls,
\* slow() keeps the callbacks it was given
Called(S, node, path, values, outcome) ==
    IF node.kind # "function" THEN S
    ELSE IF outcome.do = "pending" THEN [S EXCEPT !.pending = (path :> values) @@ @]
    ELSE IF /\ node.source = <<"e", "f", "f", "e", "c", "t">>
            /\ \A i \in 1..Len(values) : isValue(S.calculator, values[i])
    THEN [S EXCEPT !.effects = @ + 1]
    ELSE S

\* the resolve callback the node at path gave to context.reduceAll
Reduced(S, root, path, values) ==
    Bind(At(root, path), LAMBDA node :
    Bind(ReducedOutcome(S.calculator, node,
                        IF path \in DOMAIN S.frames THEN Frame(S, path).a ELSE UndefinedTree,
                        values), LAMBDA outcome :
        Apply(Called(S, node, path, values, outcome), root, path, outcome)))

\* whether the node has an operand i
HasChild(node, i) ==
    CASE node.kind \in {"array", "function"} -> i <= Len(node.params)
      [] node.kind = "binary" -> i <= 2
      [] node.kind \in {"grouping", "prefix", "postfix"} -> i = 1
      [] OTHER -> FALSE

\* the frame of a node that reduces its operands one at a time
OneByOne(mode, a) ==
    [count |-> 0, idxs |-> <<>>, mode |-> mode, a |-> a, values |-> <<>>]

\* the helper variable(execute), for ++ and --: the value written to the literal
\* and the value resolved
VariableExecute(node, literal) ==
    Bind(ToNumber(literal.value), LAMBDA old :
    Bind(IF node.source = <<"+", "+">> THEN 1 ELSE -1, LAMBDA delta :
        [written |-> Num(old + delta),
         r |-> Num(IF node.kind = "prefix" THEN old + delta ELSE old)]))

\* the reduce procedure built by the helper variable(execute): what it does
VariableOutcome(c, node) ==
    IF Child(node, 1).kind # "literal" THEN Throws
    ELSE Bind(SourceOf(c, Child(node, 1)), LAMBDA literal :
            IF ~literal.editable THEN Throws
            ELSE ResolveWith(literal.type, VariableExecute(node, literal).r))

\* the reduce procedure built by the helper variable(execute): what it writes
VariableWrite(S, node, outcome) ==
    IF outcome.do = "throw" THEN S
    ELSE Bind(SourceOf(S.calculator, Child(node, 1)), LAMBDA literal :
            [S EXCEPT !.calculator =
                SetLiteral(@, literal.key, VariableExecute(node, literal).written,
                           literal.type)])

\* context.reduce on a constant or a literal: the tree it resolves with
LeafResult(c, tree) ==
    IF tree.kind = "constant" THEN tree
    ELSE Bind(SourceOf(c, tree), LAMBDA source :
            IF source.notResolved THEN tree
            ELSE newConstant(source.type, source.value, <<>>))

\* how context.reduce goes on for the node: "leaf" (resolve at once), "all" (its
\* operands go to reduceAll), "one" (the reduce procedure reduces one operand
\* first), "variable" (++ and --), "invalid"
ReducePlan(c, tree) ==
    CASE tree.kind \in {"constant", "literal"} -> "leaf"
      [] tree.kind = "array" -> "all"
      [] tree.kind = "grouping" -> "one"
      [] tree.kind \in {"binary", "prefix", "postfix", "function"} ->
            Bind(SourceOf(c, tree).reduce, LAMBDA r :
                IF tree.kind \in {"prefix", "postfix"}
                THEN (IF r = "variable" THEN "variable" ELSE "one")
                ELSE IF r \in {"calc", "comma", "in"} THEN "all" ELSE "one")
      [] OTHER -> "invalid"

\* the operands the node hands to reduceAll
AllOperands(tree) ==
    IF tree.kind = "binary" THEN <<1, 2>> ELSE Indices(Len(tree.params))

\* the operand a reduce procedure reduces first
FirstOperand(c, tree) ==
    IF tree.kind = "binary" /\ SourceOf(c, tree).reduce = "assign" THEN 2 ELSE 1

\* what the reduce procedure remembers while its first operand is reduced
FirstFrame(S, path, tree) ==
    IF tree.kind = "function" THEN SetFrame(S, path, OneByOne("test", UndefinedTree))
    ELSE IF tree.kind = "binary" /\ SourceOf(S.calculator, tree).reduce # "assign"
    THEN SetFrame(S, path, OneByOne("a", UndefinedTree))
    ELSE S

\* CalculatorContext.prototype.reduce on the sub-tree at path
reduce(S, root, path) ==
    IF Stopped(S) THEN S
    ELSE IF path # <<>> /\ ~HasChild(At(root, Parent(path)), Last(path))
    THEN \* typeof tree === 'undefined'
         Resolve(S, root, path, UndefinedTree)
    ELSE
    Bind(At(root, path), LAMBDA tree :
    Bind([S EXCEPT !.visited = @ \cup {path}], LAMBDA V :
    Bind(ReducePlan(S.calculator, tree), LAMBDA plan :
        CASE plan = "leaf" -> Resolve(V, root, path, LeafResult(S.calculator, tree))
          [] plan = "all" -> reduceAll(V, root, path, AllOperands(tree))
          [] plan = "one" ->
                reduce(FirstFrame(V, path, tree), root,
                       Append(path, FirstOperand(S.calculator, tree)))
          [] plan = "variable" ->
                Bind(VariableOutcome(S.calculator, tree), LAMBDA outcome :
                    Apply(VariableWrite(V, tree, outcome), root, path, outcome))
          [] plan = "invalid" -> Reject(V, root, path, "Invalid tree node kind"))))

\* a variant of AssignOutcome in which every literal has a setter
AssignOutcomeAny(c, variable, b) ==
    IF ~isValue(c, b) THEN ResolveTree(b)
    ELSE IF variable.kind # "literal" THEN Throws
    ELSE [do |-> "resolve", tree |-> b, written |-> TRUE]

\* the "=" operator's callback: what it does once the right operand is reduced to b
AssignOutcome(c, variable, b) ==
    IF ~isValue(c, b) THEN ResolveTree(b)
    ELSE IF variable.kind # "literal" THEN Throws
    ELSE IF ~SourceOf(c, variable).editable THEN Throws
    ELSE [do |-> "resolve", tree |-> b, written |-> TRUE]

\* the "=" operator's callback: the write of the literal through its setter
AssignWrite(S, variable, b, outcome) ==
    IF "written" \notin DOMAIN outcome THEN S
    ELSE [S EXCEPT !.calculator =
             SetLiteral(@, variable.source, getValue(@, b), getType(@, b))]

\* a variant of Decides in which no operand ever decides the result
NeverDecides(c, self, x) == FALSE

\* the test "||", "&&" and "??" make on a reduced operand: whether it is a value
\* that decides the result on its own
Decides(c, self, x) ==
    /\ isValue(c, x)
    /\ CASE self.reduce = "or" -> Truthy(getValue(c, x))
         [] self.reduce = "and" -> ~Truthy(getValue(c, x))
         [] self.reduce = "coalesce" -> getValue(c, x) # Null

\* "||", "&&" and "??": the tree resolved once both operands are reduced to a and b
LogicalResult(c, self, a, b) ==
    IF self.reduce = "coalesce"
    THEN (IF isValue(c, a) THEN b ELSE newBinary(self, a, b, <<>>))
    ELSE IF Decides(c, self, b) THEN b
    ELSE IF isValue(c, a) THEN b
    ELSE IF isValue(c, b) THEN a
    ELSE newBinary(self, a, b, <<>>)

\* the callbacks of "||", "&&" and "??" for the left operand (i = 1) and the right one
Logical(S, root, path, i, result) ==
    Bind(SourceOf(S.calculator, At(root, path)), LAMBDA self :
        IF i = 1 /\ ~Decides(S.calculator, self, result)
        THEN reduce(SetFrame(S, path, OneByOne("b", result)), root, Append(path, 2))
        ELSE Resolve(S, root, path,
                     IF i = 1 THEN result
                     ELSE LogicalResult(S.calculator, self, Frame(S, path).a, result)))

\* a variant of If that reduces both branches whatever the test reduced to
IfBoth(S, root, path, i, result) ==
    IF i # 1 THEN Resolve(S, root, path, result)
    ELSE IF result = UndefinedTree THEN Throw(S)
    ELSE reduceAll(SetFrame(S, path, OneByOne("both", result)), root, path, <<2, 3>>)

\* the callbacks of the "if" function for its test (i = 1) and the branch it selected
If(S, root, path, i, result) ==
    IF i # 1 THEN Resolve(S, root, path, result)
    ELSE IF result = UndefinedTree THEN Throw(S)
    ELSE IF isValue(S.calculator, result)
    THEN reduce(SetFrame(S, path, OneByOne("branch", result)), root,
                Append(path, IF Truthy(getValue(S.calculator, result)) THEN 2 ELSE 3))
    ELSE reduceAll(SetFrame(S, path, OneByOne("both", result)), root, path, <<2, 3>>)

\* the callback of a prefix, postfix or grouping node, or of "=", for its operand
UnaryOutcome(c, node, result) ==
    IF node.kind = "grouping"
    THEN ResolveTree(IF result.kind = "constant" THEN result ELSE newGrouping(result))
    ELSE Bind(SourceOf(c, node), LAMBDA self :
        CASE node.kind = "prefix" ->
                \* defaultPrefixOperatorReduce
                IF isValue(c, result)
                THEN PrefixCalculate(self.key, getType(c, result), getValue(c, result))
                ELSE ResolveTree(newPrefix(self, result, <<>>))
          [] node.kind = "postfix" ->
                \* defaultPostfixOperatorReduce
                IF isValue(c, result)
                THEN PostfixCalculate(self.key, getType(c, result), getValue(c, result))
                ELSE ResolveTree(newPostfix(self, result, <<>>))
          [] node.kind = "binary" -> AssignOutcome(c, node.left, result))

\* the resolve callback the node at path passed to context.reduce for its operand i
Callback(S, root, path, i, result) ==
    Bind(At(root, path), LAMBDA node :
        IF ThroughReduceAll(S, node, path) THEN reduceAllResolve(S, root, path, i, result)
        ELSE IF node.kind = "function" THEN If(S, root, path, i, result)
        ELSE IF result = UndefinedTree THEN Throw(S)
        ELSE IF node.kind = "binary" /\ SourceOf(S.calculator, node).reduce # "assign"
        THEN Logical(S, root, path, i, result)
        ELSE Bind(UnaryOutcome(S.calculator, node, result), LAMBDA outcome :
                Apply(IF node.kind = "binary" THEN AssignWrite(S, node.left, result, outcome)
                      ELSE S,
                      root, path, outcome)))

\* a variant of Resolve in which the caller's resolve is put off to a later task
\* that the model never runs
ResolveLater(S, root, path, result) ==
    IF Stopped(S) \/ path = <<>> THEN S
    ELSE Callback(S, root, Parent(path), Last(path), result)

\* the resolve callback passed to context.reduce for the sub-tree at path
Resolve(S, root, path, result) ==
    IF Stopped(S) THEN S
    ELSE IF path = <<>> THEN [S EXCEPT !.resolved = Append(@, result)]
    ELSE Callback(S, root, Parent(path), Last(path), result)

\* the reject callback passed to context.reduce for the sub-tree at path
Reject(S, root, path, error) ==
    IF Stopped(S) THEN S
    ELSE IF path = <<>> THEN [S EXCEPT !.rejected = Append(@, error)]
    ELSE IF ThroughReduceAll(S, At(root, Parent(path)), Parent(path))
    THEN reduceAllReject(S, root, Parent(path), error)
    ELSE Reject(S, root, Parent(path), error)


(***************************************************************************)
(* An asynchronous function completes: slow(x) invokes the resolve it was  *)
(* given with x, or the reject it was given.                               *)
(***************************************************************************)
Complete(S, tree, path, outcome) ==
    LET values == S.pending[path]
        c == S.calculator
        T == [S EXCEPT !.pending = [q \in (DOMAIN @) \ {path} |-> @[q]],
                       !.completed = Append(@, <<path, outcome>>), !.ended = "no"]
    IN  IF outcome = "reject" THEN Reject(T, tree, path, "failed")
        ELSE IF values = <<>>
        THEN Resolve(T, tree, path, newConstant("null", Null, <<>>))
        ELSE Resolve(T, tree, path,
                     newConstant(getType(c, values[1]), getValue(c, values[1]), <<>>))

\* the caller hands a tree to CalculatorContext.reduce of a new context
StartReduce(calculator, tree) == reduce(NewRun(calculator), tree, <<>>)


(***************************************************************************)
(* The formulas the caller submits.                                        *)
(*                                                                         *)
(* Sentences(pieces, n) are the texts made of at most n pieces, a piece    *)
(* being a character or a token: the parser is run on every one of them,   *)
(* accepted or not.                                                        *)
(***************************************************************************)
RECURSIVE Concat(_)
Concat(ps) == IF ps = <<>> THEN <<>> ELSE Head(ps) \o Concat(Tail(ps))

Sentences(pieces, n) == {Concat(ps) : ps \in UNION {[1..k -> pieces] : k \in 0..n}}

MaxLen == 6
MaxShort == 5

\* digits, a binary operator, spaces and tabulations
Blanks == {<<"1">>, <<"+">>, <<" ">>, <<"\t">>}
\* digits, binary operators of two precedences and a postfix operator
Powers == {<<"1">>, <<"+">>, <<"*">>, <<"sq">>}
\* digits, spaces, an operator that is prefix and binary, and a grouping
Signs == {<<"1">>, <<"-">>, <<" ">>, <<"(">>, <<")">>}

ParseFormulas ==
    Sentences(Blanks, MaxShort) \cup Sentences(Powers, MaxLen) \cup Sentences(Signs, MaxShort)

MaxQuote == 5
MaxWord == 4

\* quotes, backslashes, digits and an operator that is prefix and binary
Quotes == {<<"\"">>, <<"\\">>, <<"1">>, <<"+">>}
\* an unknown name, an editable literal, a digit, operators, a closing parenthesis
\* and spaces
Words == {<<"f", "o", "o">>, <<"m", "e", "m">>, <<"1">>, <<"*">>, <<"+">>, <<")">>, <<" ">>}

TextFormulas == Sentences(Quotes, MaxQuote) \cup Sentences(Words, MaxWord)

FalseAndEffect ==
    \* false && effect()
    <<"f", "a", "l", "s", "e", " ", "&", "&", " ", "e", "f", "f", "e", "c", "t", "(", ")">>
TrueOrEffect ==
    \* true || effect()
    <<"t", "r", "u", "e", " ", "|", "|", " ", "e", "f", "f", "e", "c", "t", "(", ")">>
TrueAndEffect ==
    \* true && effect()
    <<"t", "r", "u", "e", " ", "&", "&", " ", "e", "f", "f", "e", "c", "t", "(", ")">>
FalseOrEffect ==
    \* false || effect()
    <<"f", "a", "l", "s", "e", " ", "|", "|", " ", "e", "f", "f", "e", "c", "t", "(", ")">>
SlowAndEffect ==
    \* slow(0) && effect()
    <<"s", "l", "o", "w", "(", "0", ")", " ", "&", "&", " ", "e", "f", "f", "e", "c", "t", "(", ")">>
SlowOrAssign ==
    \* slow(1) || (mem = 2)
    <<"s", "l", "o", "w", "(", "1", ")", " ", "|", "|", " ", "(", "m", "e", "m", " ", "=", " ", "2", ")">>
MemIsFive ==
    \* mem = 5
    <<"m", "e", "m", " ", "=", " ", "5">>
MemIsSlow ==
    \* mem = slow(7)
    <<"m", "e", "m", " ", "=", " ", "s", "l", "o", "w", "(", "7", ")">>
MemPlusOne ==
    \* mem + 1
    <<"m", "e", "m", " ", "+", " ", "1">>
FailPlusFail ==
    \* fail() + fail()
    <<"f", "a", "i", "l", "(", ")", " ", "+", " ", "f", "a", "i", "l", "(", ")">>
SlowPlusSlow ==
    \* slow(1) + slow(2)
    <<"s", "l", "o", "w", "(", "1", ")", " ", "+", " ", "s", "l", "o", "w", "(", "2", ")">>
SlowThenFail ==
    \* [slow(1), fail()]
    <<"[", "s", "l", "o", "w", "(", "1", ")", ",", " ", "f", "a", "i", "l", "(", ")", "]">>
FailThenSlow ==
    \* [fail(), slow(1)]
    <<"[", "f", "a", "i", "l", "(", ")", ",", " ", "s", "l", "o", "w", "(", "1", ")", "]">>
ThreeSlow ==
    \* [slow(1), 2, slow(3)]
    <<"[", "s", "l", "o", "w", "(", "1", ")", ",", " ", "2", ",", " ", "s", "l", "o", "w", "(", "3", ")", "]">>
MaxOfSlow ==
    \* max(slow(1), slow(3), 2)
    <<"m", "a", "x", "(", "s", "l", "o", "w", "(", "1", ")", ",", " ", "s", "l", "o", "w", "(", "3", ")", ",", " ", "2", ")">>
OnePlusTwoTimesThree ==
    \* 1 + 2 * 3
    <<"1", " ", "+", " ", "2", " ", "*", " ", "3">>

SessionFormulas ==
    {FalseAndEffect,
     TrueOrEffect,
     TrueAndEffect,
     FalseOrEffect,
     SlowAndEffect,
     SlowOrAssign,
     MemIsFive,
     MemIsSlow,
     MemPlusOne,
     FailPlusFail,
     SlowPlusSlow,
     SlowThenFail,
     FailThenSlow,
     ThreeSlow,
     MaxOfSlow,
     OnePlusTwoTimesThree}


(***************************************************************************)
(* Chains of two binary operators of the same precedence, between integers *)
(* small enough for the results to stay within the integers the model      *)
(* computes with.                                                          *)
(***************************************************************************)
ChainOperands == {2, 3, 8}
PowerOperands == {<<2, 2, 3>>, <<2, 3, 2>>, <<3, 2, 2>>, <<2, 2, 2>>, <<3, 2, 3>>, <<8, 2, 3>>}

Plus == <<"+">>
Minus == <<"-">>
Times == <<"*">>
Power == <<"*", "*">>
LeftPairs == ({Plus, Minus} \X {Plus, Minus}) \cup {<<Times, Times>>}

Chain(a, o1, b, o2, c) ==
    NatToString(a, 10) \o <<" ">> \o o1 \o <<" ">> \o NatToString(b, 10)
        \o <<" ">> \o o2 \o <<" ">> \o NatToString(c, 10)

ChainFormulas ==
    {Chain(a, o[1], b, o[2], c) : a \in ChainOperands, b \in ChainOperands,
                                  c \in ChainOperands, o \in LeftPairs}
    \cup {Chain(t[1], Power, t[2], Power, t[3]) : t \in PowerOperands}

(***************************************************************************)
(* The caller.                                                             *)
(***************************************************************************)
Nothing == [ok |-> FALSE, error |-> "none"]

\* no parse is followed step by step
NoParser == [status |-> "none"]

\* no reduction is in progress: every callback that will ever be invoked has been
Quiet == DOMAIN run.pending = {} /\ run.ended # "hang"

\* var calculator = new Calculator(); and nothing parsed yet
Start(f, at) ==
    /\ formula = f
    /\ pc = at
    /\ parsed = Nothing
    /\ text = <<>>
    /\ reparsed = Nothing
    /\ run = NewRun(DefaultCalculator)
    /\ target = UndefinedTree
    /\ kept = UndefinedTree
    /\ parses = 0
    /\ reductions = 0
    /\ calls = <<>>
    /\ parser = NoParser

\* calculator.parse(formula), the exception it throws being caught
Parse ==
    /\ pc = "ready"
    /\ parsed' = parse(run.calculator, formula)
    /\ pc' = "parsed"
    /\ UNCHANGED <<parser, calls, formula, text, reparsed, run, target, kept, parses, reductions>>

\* calculator.format(tree) on the tree parse returned
Format ==
    /\ pc = "parsed"
    /\ parsed.ok
    /\ text' = format(run.calculator, parsed.tree)
    /\ pc' = "formatted"
    /\ UNCHANGED <<parser, calls, formula, parsed, reparsed, run, target, kept, parses, reductions>>

\* calculator.parse(text) on the text format returned
Reparse ==
    /\ pc = "formatted"
    /\ reparsed' = parse(run.calculator, text)
    /\ pc' = "reparsed"
    /\ UNCHANGED <<parser, calls, formula, parsed, text, run, target, kept, parses, reductions>>

\* new CalculatorContext(calculator).reduce(tree, resolve, reject) on the tree
\* parse returned
ReduceParsed ==
    /\ pc = "parsed"
    /\ parsed.ok
    /\ target' = parsed.tree
    /\ run' = StartReduce(run.calculator, parsed.tree)
    /\ pc' = "reduced"
    /\ UNCHANGED <<parser, calls, formula, parsed, text, reparsed, kept, parses, reductions>>

MaxParses == 2
MaxReductions == 2

\* calculator.parse(f) for one more formula, on the same calculator
ParseNext(f) ==
    /\ pc = "session"
    /\ Quiet
    /\ parses < MaxParses
    /\ formula' = f
    /\ parsed' = parse(run.calculator, f)
    /\ parses' = parses + 1
    /\ UNCHANGED <<parser, calls, pc, text, reparsed, run, target, kept, reductions>>

\* the caller keeps the tree it has just parsed
Keep ==
    /\ pc = "session"
    /\ parsed.ok
    /\ kept = UndefinedTree
    /\ parses < MaxParses
    /\ kept' = parsed.tree
    /\ UNCHANGED <<parser, calls, formula, pc, parsed, text, reparsed, run, target, parses, reductions>>

\* new CalculatorContext(calculator).reduce(tree, resolve, reject) on a tree the
\* caller holds; reduce returns once the synchronous part is done
Reduce(tree) ==
    /\ pc = "session"
    /\ Quiet
    /\ reductions < MaxReductions
    /\ tree # UndefinedTree
    /\ target' = tree
    /\ run' = StartReduce(run.calculator, tree)
    /\ reductions' = reductions + 1
    /\ UNCHANGED <<parser, calls, formula, pc, parsed, text, reparsed, kept, parses>>

\* an asynchronous function called at path completes, in a task of its own
Completion(path, outcome) ==
    /\ pc = "session"
    /\ run.ended # "hang"
    /\ path \in DOMAIN run.pending
    /\ run' = Complete(run, target, path, outcome)
    /\ UNCHANGED <<parser, calls, formula, pc, parsed, text, reparsed, target, kept, parses, reductions>>

Trees == {kept} \cup (IF parsed.ok THEN {parsed.tree} ELSE {})

Init == Start(<<>>, "session")

Next ==
    \/ \E f \in SessionFormulas : ParseNext(f)
    \/ Keep
    \/ \E tree \in Trees : Reduce(tree)
    \/ \E path \in DOMAIN run.pending : Completion(path, "resolve")
    \/ \E path \in DOMAIN run.pending : Completion(path, "reject")

\* one calculator, formulas parsed and reduced one after the other
Spec == Init /\ [][Next]_vars

InitParse == \E f \in ParseFormulas : Start(f, "ready")

NextParse == Parse \/ Format \/ Reparse

\* every formula is parsed, formatted and parsed again
SpecParse == InitParse /\ [][NextParse]_vars

InitText == \E f \in TextFormulas : Start(f, "ready")

\* every text is parsed, and what is accepted is formatted and parsed again
SpecText == InitText /\ [][NextParse]_vars

MaxDigits == 4
MaxValue == 20

\* the letters of the three notations, an upper-case one, and digits of the three
\* radixes
RadixPieces == {<<"0">>, <<"1">>, <<"8">>, <<"F">>, <<"x">>, <<"X">>, <<"o">>, <<"b">>}
RadixTokens == Sentences(RadixPieces, MaxDigits)
RadixTypes == {"hexadecimal", "octal", "binary"}

\* the constants of the three notations the host may hold
RadixConstants ==
    {newConstant(type, Num(v), <<>>) : type \in RadixTypes, v \in (-MaxValue)..MaxValue}

\* calculator.format(tree) on a constant the host holds
FormatKept ==
    /\ pc = "held"
    /\ text' = format(run.calculator, kept)
    /\ pc' = "formatted"
    /\ UNCHANGED <<parser, calls, formula, parsed, reparsed, run, target, kept, parses, reductions>>

\* var calculator = new Calculator(); and a constant in the host's hands
Hold(c) ==
    /\ formula = <<>>
    /\ pc = "held"
    /\ parsed = Nothing
    /\ text = <<>>
    /\ reparsed = Nothing
    /\ run = NewRun(DefaultCalculator)
    /\ target = UndefinedTree
    /\ kept = c
    /\ parses = 0
    /\ reductions = 0
    /\ calls = <<>>
    /\ parser = NoParser

InitRadix ==
    \/ \E f \in RadixTokens : Start(f, "ready")
    \/ \E c \in RadixConstants : Hold(c)

NextRadix == Parse \/ FormatKept \/ Reparse

\* every token is parsed; every constant is formatted and the text parsed
SpecRadix == InitRadix /\ [][NextRadix]_vars

MaxFactorial == 8
MaxBase == 12

\* what is written between the quotes of the strings added, and the numbers added
StringOperands == {<<>>, <<"a">>, <<"b">>, <<"a", "b">>}
NumberOperands == {0, 1, 2, 12}
Quoted(s) == <<"\"">> \o s \o <<"\"">>

\* the operands of the sums: strings, numbers, a boolean and the literal mem
SumOperands ==
    {Quoted(s) : s \in StringOperands} \cup {NatToString(n, 10) : n \in NumberOperands}
        \cup {TrueToken, MemToken}
Sum(x, y) == x \o <<" ", "+", " ">> \o y
Postfixed(n, o) == NatToString(n, 10) \o <<o>>

\* x + y, n!, n², n³
OperatorFormulas ==
    {Sum(x, y) : x \in SumOperands, y \in SumOperands}
        \cup {Postfixed(n, "!") : n \in 0..MaxFactorial}
        \cup {Postfixed(n, o) : n \in 0..MaxBase, o \in {"sq", "cu"}}

InitOperators == \E f \in OperatorFormulas : Start(f, "ready")

\* lit = rhs: values of four types, trees that do not reduce to a value, functions
\* of the embedder that complete later or fail, a literal without a setter
AssignFormulas ==
    {\* mem = 5
     <<"m", "e", "m", " ", "=", " ", "5">>,
     \* mem = "a"
     <<"m", "e", "m", " ", "=", " ", "\"", "a", "\"">>,
     \* mem = true
     <<"m", "e", "m", " ", "=", " ", "t", "r", "u", "e">>,
     \* mem = 1 + 2
     <<"m", "e", "m", " ", "=", " ", "1", " ", "+", " ", "2">>,
     \* mem = mem
     <<"m", "e", "m", " ", "=", " ", "m", "e", "m">>,
     \* mem = [1, 2]
     <<"m", "e", "m", " ", "=", " ", "[", "1", ",", " ", "2", "]">>,
     \* mem = [mem]
     <<"m", "e", "m", " ", "=", " ", "[", "m", "e", "m", "]">>,
     \* mem = slow(7)
     <<"m", "e", "m", " ", "=", " ", "s", "l", "o", "w", "(", "7", ")">>,
     \* mem = fail()
     <<"m", "e", "m", " ", "=", " ", "f", "a", "i", "l", "(", ")">>,
     \* pi = 3
     <<"p", "i", " ", "=", " ", "3">>}

NextAssign ==
    \/ \E f \in AssignFormulas : ParseNext(f)
    \/ parsed.ok /\ Reduce(parsed.tree)
    \/ \E path \in DOMAIN run.pending : Completion(path, "resolve")
    \/ \E path \in DOMAIN run.pending : Completion(path, "reject")

\* one calculator, assignments parsed and reduced one after the other
SpecAssign == Init /\ [][NextAssign]_vars

MaxCalls == 3

\* new CalculatorOperator(token, precedence, associativity, undefined, calculate)
CalculatorOperator(token, precedence, associativity) ==
    [key |-> token, token |-> token, precedence |-> precedence,
     associativity |-> associativity, reduce |-> "calc"]

\* new CalculatorLiteral(token, integerType, value)
CalculatorLiteral(token, value) ==
    [key |-> token, token |-> token, type |-> "integer", value |-> Num(value),
     editable |-> FALSE, notResolved |-> FALSE]

\* new CalculatorFunction(token, params, reduce, undefined), reduce being one of
\* two procedures of the host
CalculatorFunction(token, procedure) ==
    [key |-> token, token |-> token, reduce |-> procedure]

\* the tokens the host registers, in the two cases
OperatorTokens == {<<"-">>, <<"o", "r">>, <<"O", "R">>}
NameTokens == {<<"x">>, <<"X">>}

\* the operators, literals and functions the host registers
Operators ==
    {CalculatorOperator(token, precedence, associativity) :
        token \in OperatorTokens, precedence \in {1, 2},
        associativity \in {"prefix", "postfix", "left", "right"}}
Literals == {CalculatorLiteral(token, value) : token \in NameTokens, value \in {1, 2}}
Functions ==
    {CalculatorFunction(token, procedure) :
        token \in NameTokens, procedure \in {"slow", "fail"}}

\* var calculator = new Calculator();
InitRegistry ==
    /\ formula = <<>>
    /\ pc = "setup"
    /\ parsed = Nothing
    /\ text = <<>>
    /\ reparsed = Nothing
    /\ run = NewRun(NewCalculator)
    /\ target = UndefinedTree
    /\ kept = UndefinedTree
    /\ parses = 0
    /\ reductions = 0
    /\ calls = <<>>
    /\ parser = NoParser

\* calculator.addOperator(entry), calculator.addLiteral(entry) or
\* calculator.addFunction(entry)
Register(method, entry) ==
    /\ pc = "setup"
    /\ Len(calls) < MaxCalls
    /\ run' = [run EXCEPT !.calculator =
                  CASE method = "addOperator" -> addOperator(@, entry)
                    [] method = "addLiteral" -> addLiteral(@, entry)
                    [] method = "addFunction" -> addFunction(@, entry)]
    /\ calls' = Append(calls, [method |-> method, entry |-> entry])
    /\ UNCHANGED <<parser, formula, pc, parsed, text, reparsed, target, kept, parses, reductions>>

NextRegistry ==
    \/ \E entry \in Operators : Register("addOperator", entry)
    \/ \E entry \in Literals : Register("addLiteral", entry)
    \/ \E entry \in Functions : Register("addFunction", entry)

\* a host that sets up a Calculator of its own
SpecRegistry == InitRegistry /\ [][NextRegistry]_vars

MaxSpelled == 4

\* an embedder's registry: the default grammar, translated so that the logical
\* operators are the words "or" and "and"
SpellingCalculator ==
    addOperator(addOperator(DefaultCalculator,
                            CalculatorOperator(<<"o", "r">>, 3, "left")),
                CalculatorOperator(<<"a", "n", "d">>, 4, "left"))

\* a function, a literal, an operator that is a word, a number, parentheses, a space
SpellingPieces ==
    {<<"f", "l", "o", "o", "r">>, <<"m", "e", "m">>, <<"o", "r">>, <<"1">>, <<"(">>, <<")">>,
     <<" ">>}

\* the texts made of these, every function of the registry called without
\* argument, and every literal of the registry
SpellingFormulas ==
    Sentences(SpellingPieces, MaxSpelled)
        \cup {SpellingCalculator.functions[i].token \o <<"(", ")">> :
                 i \in 1..Len(SpellingCalculator.functions)}
        \cup {SpellingCalculator.literals[i].token : i \in 1..Len(SpellingCalculator.literals)}

\* var calculator = new Calculator(); with the registry the embedder sets up
StartOn(calculator, f) ==
    /\ formula = f
    /\ pc = "ready"
    /\ parsed = Nothing
    /\ text = <<>>
    /\ reparsed = Nothing
    /\ run = NewRun(calculator)
    /\ target = UndefinedTree
    /\ kept = UndefinedTree
    /\ parses = 0
    /\ reductions = 0
    /\ calls = <<>>
    /\ parser = NoParser

InitSpelling == \E f \in SpellingFormulas : StartOn(SpellingCalculator, f)

\* every text is parsed on the embedder's registry
SpecSpelling == InitSpelling /\ [][NextParse]_vars

MaxMatch == 5

\* the characters of separators that begin alike, a digit, a letter and a space
MatchPieces == {<<">">>, <<"=">>, <<"1">>, <<"a">>, <<" ">>}
MatchFormulas == Sentences(MatchPieces, MaxMatch)

InitMatch == \E f \in MatchFormulas : Start(f, "ready")

\* every text of these characters is parsed
SpecMatch == InitMatch /\ [][NextParse]_vars

\* an embedder's registry: the default grammar and a symbol x that has no value
PartialCalculator ==
    addLiteral(DefaultCalculator,
               [CalculatorLiteral(<<"x">>, 0) EXCEPT !.notResolved = TRUE])

\* operands that reduce to a value (1, 2, mem) and operands that do not (x, [1])
PartialOperands == {<<"1">>, <<"2">>, MemToken, <<"x">>, <<"[", "1", "]">>}

\* operators and functions defined through calculate, on these operands
PartialFormulas ==
    {a \o <<" ", o, " ">> \o b : a \in PartialOperands, b \in PartialOperands, o \in {"+", "*"}}
        \cup {<<o>> \o a : a \in PartialOperands, o \in {"-", "!"}}
        \cup {a \o <<o>> : a \in PartialOperands, o \in {"sq", "!"}}
        \cup {<<"m", "a", "x", "(">> \o a \o <<",", " ">> \o b \o <<")">> :
                 a \in PartialOperands, b \in PartialOperands}
        \cup {<<"a", "b", "s", "(">> \o a \o <<")">> : a \in PartialOperands}

InitPartial == \E f \in PartialFormulas : StartOn(PartialCalculator, f)

MaxList == 3

\* the expressions listed: numbers, a sum, a negative number, a square, a comma
\* list in parentheses, an array
ListElements ==
    {<<"1">>, <<"2">>, <<"1", " ", "+", " ", "2">>, <<"-", "1">>, <<"1", "sq">>,
     <<"(", "1", ",", " ", "2", ")">>, <<"[", "1", ",", " ", "2", "]">>}
ListsOf(n) == UNION {[1..k -> ListElements] : k \in 0..n}

\* the elements between open and close, separated by ", "
Listed(open, elements, close) == open \o Join(elements, <<",", " ">>) \o close
ArrayOf(elements) == Listed(<<"[">>, elements, <<"]">>)
CallOf(elements) == Listed(<<"m", "a", "x", "(">>, elements, <<")">>)

ListFormulas ==
    {ArrayOf(elements) : elements \in ListsOf(MaxList)}
        \cup {CallOf(elements) : elements \in ListsOf(MaxList)}

InitLists == \E f \in ListFormulas : Start(f, "ready")

\* every list is parsed
SpecLists == InitLists /\ [][NextParse]_vars

\* if(test, trueValue, falseValue)
IfOf(test, v1, v2) ==
    <<"i", "f", "(">> \o test \o <<",", " ">> \o v1 \o <<",", " ">> \o v2 \o <<")">>

\* tests that reduce to a truthy or a falsy value, at once or later, and one
\* that reduces to an array
IfTests ==
    {TrueToken, <<"0">>, <<"[", "1", "]">>, <<"s", "l", "o", "w", "(", "1", ")">>,
     <<"s", "l", "o", "w", "(", "0", ")">>}

\* branches that write mem, call a function of the embedder, fail, or are values
IfBranches ==
    {<<<<"m", "e", "m", " ", "=", " ", "1">>, <<"m", "e", "m", " ", "=", " ", "2">>>>,
     <<<<"e", "f", "f", "e", "c", "t", "(", ")">>, <<"f", "a", "i", "l", "(", ")">>>>,
     <<<<"f", "a", "i", "l", "(", ")">>, <<"e", "f", "f", "e", "c", "t", "(", ")">>>>,
     <<<<"1">>, <<"2">>>>}

IfFormulas == {IfOf(test, b[1], b[2]) : test \in IfTests, b \in IfBranches}

NextIf ==
    \/ \E f \in IfFormulas : ParseNext(f)
    \/ parsed.ok /\ Reduce(parsed.tree)
    \/ \E path \in DOMAIN run.pending : Completion(path, "resolve")
    \/ \E path \in DOMAIN run.pending : Completion(path, "reject")

\* one calculator, conditionals parsed and reduced one after the other
SpecIf == Init /\ [][NextIf]_vars

\* operands of the formulas reduced at once: integers of either sign, bare or
\* between parentheses, a literal with a setter and one without
SyncOperands ==
    {<<"0">>, <<"1">>, <<"2">>, <<"3">>, <<"-", "1">>, <<"(", "1", ")">>,
     <<"(", "-", "1", ")">>, <<"(", "-", "2", ")">>, MemToken, <<"p", "i">>}

\* the operands the model computes with: pi is not an integer
ArithmeticOperands == SyncOperands \ {<<"p", "i">>}

\* ++x, --x, x++, x--, x = 1 on every operand; -x, !x, x!, x², x + 1
SyncFormulas ==
    {o \o x : o \in {<<"+", "+">>, <<"-", "-">>}, x \in SyncOperands}
        \cup {x \o o : o \in {<<"+", "+">>, <<"-", "-">>, <<" ", "=", " ", "1">>},
                        x \in SyncOperands}
        \cup {o \o x : o \in {<<"-">>, <<"!">>}, x \in ArithmeticOperands}
        \cup {x \o o : o \in {<<"!">>, <<"sq">>, <<" ", "+", " ", "1">>},
                        x \in ArithmeticOperands}

InitSync == \E f \in SyncFormulas : Start(f, "ready")

\* "=", "++" and "--" applied to the literals registered without a setter, and
\* formulas that read them or write mem
ConstantFormulas ==
    {\* pi = 3
     <<"p", "i", " ", "=", " ", "3">>,
     \* pi = "a"
     <<"p", "i", " ", "=", " ", "\"", "a", "\"">>,
     \* pi = true
     <<"p", "i", " ", "=", " ", "t", "r", "u", "e">>,
     \* pi = mem
     <<"p", "i", " ", "=", " ", "m", "e", "m">>,
     \* pi = e
     <<"p", "i", " ", "=", " ", "e">>,
     \* pi = [1]
     <<"p", "i", " ", "=", " ", "[", "1", "]">>,
     \* pi = slow(7)
     <<"p", "i", " ", "=", " ", "s", "l", "o", "w", "(", "7", ")">>,
     \* e = 1
     <<"e", " ", "=", " ", "1">>,
     \* pi++, ++pi, pi--, --pi, e++, --e
     <<"p", "i", "+", "+">>, <<"+", "+", "p", "i">>, <<"p", "i", "-", "-">>,
     <<"-", "-", "p", "i">>, <<"e", "+", "+">>, <<"-", "-", "e">>,
     \* pi, e
     <<"p", "i">>, <<"e">>,
     \* mem = 1, mem++
     <<"m", "e", "m", " ", "=", " ", "1">>, <<"m", "e", "m", "+", "+">>}

NextConstant ==
    \/ \E f \in ConstantFormulas : ParseNext(f)
    \/ parsed.ok /\ Reduce(parsed.tree)
    \/ \E path \in DOMAIN run.pending : Completion(path, "resolve")
    \/ \E path \in DOMAIN run.pending : Completion(path, "reject")

\* one calculator, formulas on its constants parsed and reduced one after the other
SpecConstant == Init /\ [][NextConstant]_vars

(***************************************************************************)
(* The parser followed step by step.  parser.index is this.index; the      *)
(* calls of Exp, Primary and Array that have not returned are the frames   *)
(* of parser.stack, the innermost last; parser.call is the call about to   *)
(* be made and parser.ret the value a call has just returned; parser.moves *)
(* lists the calls of next and consume of the last step, parser.from is    *)
(* the index before it.                                                    *)
(***************************************************************************)
NoReturn == [kind |-> "none"]
NoCall == [f |-> "none"]
NoError == [message |-> "none"]
ExpCall(p) == [f |-> "Exp", p |-> p]
ArrayCall(lastToken) == [f |-> "Array", lastToken |-> lastToken]
TreeValue(tree) == [kind |-> "tree", tree |-> tree]
ParamsValue(params) == [kind |-> "params", params |-> params]

\* a call under way: the function, the index at which it was entered, what it
\* waits for or does next, and its local variables
CallFrame(f, at, stage, p, source, tree, token) ==
    [f |-> f, at |-> at, stage |-> stage, p |-> p, source |-> source, tree |-> tree,
     token |-> token]

\* new CalculatorParser(calculator, formula) on the formula of the caller
ParserOf == CalculatorParser(run.calculator, formula)

Top(T) == T.stack[Len(T.stack)]
Push(T, frame) == [T EXCEPT !.stack = Append(@, frame)]
Popped(T) == [T EXCEPT !.stack = SubSeq(@, 1, Len(@) - 1)]
SetTop(T, frame) == [T EXCEPT !.stack[Len(T.stack)] = frame]
Calling(T, call) == [T EXCEPT !.call = call, !.ret = NoReturn]
Returned(T, value) == [T EXCEPT !.call = NoCall, !.ret = value]

\* body(value), the value being computed once
Eager(value, body(_)) == CHOOSE r \in {body(x) : x \in {value}} : TRUE

\* what follows a call that may have thrown
Then(T, F(_)) == Eager(T, LAMBDA X : IF X.status = "error" THEN X ELSE F(X))

\* this.error(...): the exception leaves parse
Thrown(T, e) == [T EXCEPT !.status = "error", !.error = e.error, !.call = NoCall,
                          !.ret = NoReturn]

\* this.next() has been called and returned n
Asked(T, n, by) ==
    [T EXCEPT !.moves = Append(@, [op |-> "next", by |-> by, at |-> T.index,
                                   text |-> IF n.ok THEN n.token ELSE <<>>,
                                   to |-> T.index])]

\* this.consume(text)
Consumed(P, T, t, by) ==
    Eager(consume(P, T.index, t), LAMBDA to :
        [T EXCEPT !.index = to,
                  !.moves = Append(@, [op |-> "consume", by |-> by, at |-> T.index,
                                       text |-> t, to |-> to])])

\* this.expect(text)
Expected(P, T, t, by) ==
    Eager(next(P, T.index), LAMBDA n :
    Eager(Asked(T, n, by), LAMBDA A :
        IF ~n.ok THEN Thrown(A, n)
        ELSE IF n.token = t THEN Consumed(P, A, n.token, by)
        ELSE Thrown(A, Error(P, T.index, Len(n.token), UnexpectedToken, n.token))))

\* Primary, from its first line to the call it makes or the literal it returns
PrimaryStep(P, T) ==
    Eager(next(P, T.index), LAMBDA n :
    Eager(Asked(T, n, "Primary"), LAMBDA A :
        IF ~n.ok THEN Thrown(A, n)
        ELSE Eager(ToLowerCase(n.token), LAMBDA tokenLC :
            IF HasOwn(P.prefixOperators, tokenLC)
            THEN Eager(Get(P.prefixOperators, tokenLC), LAMBDA op :
                    Calling(Push(Consumed(P, A, n.token, "prefix"),
                                CallFrame("Prefix", T.index, "Exp", op.precedence, op,
                                          UndefinedTree, n.token)),
                           ExpCall(op.precedence)))
            ELSE IF n.token = <<"(">>
            THEN Calling(Push(Consumed(P, A, n.token, "grouping"),
                             CallFrame("Grouping", T.index, "Exp", 0, UndefinedTree,
                                       UndefinedTree, n.token)),
                        ExpCall(0))
            ELSE IF n.token = <<"[">>
            THEN Calling(Push(Consumed(P, A, n.token, "array"),
                             CallFrame("ArrayLiteral", T.index, "Array", 0, UndefinedTree,
                                       UndefinedTree, n.token)),
                        ArrayCall(<<"]">>))
            ELSE IF HasOwn(P.functions, tokenLC)
            THEN Then(Eager(Consumed(P, A, n.token, "function"),
                            LAMBDA C : Expected(P, C, <<"(">>, "function")),
                      LAMBDA E :
                         Calling(Push(E, CallFrame("Function", T.index, "Array", 0,
                                                  Get(P.functions, tokenLC), UndefinedTree,
                                                  n.token)),
                                ArrayCall(<<")">>)))
            ELSE Eager(Literal(P, T.index, n.token), LAMBDA left :
                    IF ~left.ok THEN Thrown(A, left)
                    ELSE Returned(Consumed(P, A, n.token, "literal"),
                                  TreeValue(left.tree))))))

\* Exp, from the tree Primary or the right side returned to the call of Exp for
\* the right side of a binary operator, or to the second loop
BinaryStep(P, T, frame, tree) ==
    Eager(next(P, T.index), LAMBDA n :
    Eager(Asked(T, n, "binary"), LAMBDA A :
        IF ~n.ok THEN Thrown(A, n)
        ELSE Eager(ToLowerCase(n.token), LAMBDA token :
            IF /\ HasOwn(P.binaryOperators, token)
               /\ Get(P.binaryOperators, token).precedence >= frame.p
            THEN Eager(Get(P.binaryOperators, token), LAMBDA op :
                    Calling(SetTop(Consumed(P, A, token, "binary"),
                                  CallFrame("Exp", frame.at, "right", frame.p, op, tree,
                                            token)),
                           ExpCall(RightPrecedence(op))))
            ELSE Calling(SetTop(A, CallFrame("Exp", frame.at, "postfix", frame.p,
                                            UndefinedTree, tree, <<>>)),
                        NoCall))))

\* Exp: one test of the second loop, and its body or the return
PostfixStep(P, T, frame) ==
    Eager(next(P, T.index), LAMBDA n :
    Eager(Asked(T, n, "postfix"), LAMBDA A :
        IF ~n.ok THEN Thrown(A, n)
        ELSE Eager(ToLowerCase(n.token), LAMBDA token :
            IF HasOwn(P.postfixOperators, token)
            THEN SetTop(Consumed(P, A, token, "postfix"),
                        [frame EXCEPT !.tree = newPostfix(Get(P.postfixOperators, token),
                                                          frame.tree, token)])
            ELSE Returned(Popped(A), TreeValue(frame.tree)))))

\* Array, from its first line to the call of Exp or the empty list it returns
ArrayStep(P, T, lastToken) ==
    Eager(next(P, T.index), LAMBDA n :
    Eager(Asked(T, n, "Array"), LAMBDA A :
        IF ~n.ok THEN Thrown(A, n)
        ELSE IF n.token = lastToken
        THEN Returned(Consumed(P, A, n.token, "empty"), ParamsValue(<<>>))
        ELSE Calling(Push(A, CallFrame("Array", T.index, "Exp", 0, UndefinedTree,
                                      UndefinedTree, lastToken)),
                    ExpCall(0))))

\* Primary, from the return of the call it made to its own return
PrimaryReturn(P, T, frame, value) ==
    CASE frame.f = "Prefix" ->
            Returned(Popped(T), TreeValue(newPrefix(frame.source, value.tree,
                                                    ToLowerCase(frame.token))))
      [] frame.f = "Grouping" ->
            Then(Expected(P, T, <<")">>, "grouping"), LAMBDA E :
                Returned(Popped(E), TreeValue(newGrouping(value.tree))))
      [] frame.f = "ArrayLiteral" ->
            Returned(Popped(T), TreeValue(newArray(value.params)))
      [] frame.f = "Function" ->
            Returned(Popped(T), TreeValue(newFunction(frame.source, value.params,
                                                      frame.token)))

\* what the caller of parse holds once the step has led the parser to T
Outcome(T) ==
    CASE T.status = "done" -> [ok |-> TRUE, tree |-> T.ret.tree, index |-> T.index]
      [] T.status = "error" -> [ok |-> FALSE, error |-> T.error]
      [] OTHER -> parsed

\* the step leads the parser to T
Becomes(T) ==
    /\ parser' = T
    /\ parsed' = Outcome(T)
    /\ pc' = IF T.status = "running" THEN pc ELSE "parsed"
    /\ UNCHANGED <<formula, text, reparsed, run, target, kept, parses, reductions, calls>>

\* the parser as the step finds it
Before == [parser EXCEPT !.moves = <<>>, !.from = parser.index]

\* the parser is in parse and the innermost call under way is a call of f
Within(f) ==
    /\ pc = "parsing"
    /\ parser.status = "running"
    /\ Top(parser).f \in f

\* calculator.parse(f): new CalculatorParser(calculator, f), and parse up to its
\* call of Exp(0)
Construct(calculator, f) ==
    /\ pc = "idle"
    /\ parser = NoParser
    /\ formula' = f
    /\ run' = NewRun(calculator)
    /\ parser' = [status |-> "running", index |-> 0, from |-> 0,
                  stack |-> <<CallFrame("parse", 0, "Exp", 0, UndefinedTree,
                                        UndefinedTree, <<>>)>>,
                  call |-> ExpCall(0), ret |-> NoReturn, moves |-> <<>>,
                  error |-> NoError]
    /\ pc' = "parsing"
    /\ UNCHANGED <<parsed, text, reparsed, target, kept, parses, reductions, calls>>

\* Exp(p) is called and calls Primary
CallExp ==
    /\ pc = "parsing"
    /\ parser.status = "running"
    /\ parser.call.f = "Exp"
    /\ \E P \in {ParserOf} :
       \E T \in {Push(Before, CallFrame("Exp", parser.index, "primary", parser.call.p,
                                        UndefinedTree, UndefinedTree, <<>>))} :
       \E R \in {PrimaryStep(P, T)} : Becomes(R)

\* Array(lastToken) is called
CallArray ==
    /\ pc = "parsing"
    /\ parser.status = "running"
    /\ parser.call.f = "Array"
    /\ \E P \in {ParserOf} :
       \E T \in {Before} :
       \E R \in {ArrayStep(P, T, parser.call.lastToken)} : Becomes(R)

\* Primary, or the call of Exp for a right side, returns a tree to Exp
ReturnToExp ==
    /\ Within({"Exp"})
    /\ parser.ret.kind = "tree"
    /\ \E P \in {ParserOf} :
       \E T \in {Before} :
       \E tree \in {IF Top(parser).stage = "primary" THEN parser.ret.tree
                    ELSE newBinary(Top(parser).source, Top(parser).tree, parser.ret.tree,
                                   Top(parser).token)} :
       \E R \in {BinaryStep(P, T, Top(parser), tree)} : Becomes(R)

\* Exp is in its second loop
PostfixLoop ==
    /\ Within({"Exp"})
    /\ parser.call = NoCall
    /\ parser.ret = NoReturn
    /\ Top(parser).stage = "postfix"
    /\ \E P \in {ParserOf} :
       \E T \in {Before} :
       \E R \in {PostfixStep(P, T, Top(parser))} : Becomes(R)

\* the call Primary made returns to it
ReturnToPrimary ==
    /\ Within({"Prefix", "Grouping", "ArrayLiteral", "Function"})
    /\ parser.ret # NoReturn
    /\ \E P \in {ParserOf} :
       \E T \in {Before} :
       \E R \in {PrimaryReturn(P, T, Top(parser), parser.ret)} : Becomes(R)

\* Exp(0) returns a tree to Array
ReturnToArray ==
    /\ Within({"Array"})
    /\ parser.ret.kind = "tree"
    /\ \E P \in {ParserOf} :
       \E T \in {Before} :
       \E R \in {Then(Expected(P, T, Top(parser).token, "Array"), LAMBDA E :
                      Returned(Popped(E), ParamsValue(FlattenComma(parser.ret.tree))))} :
          Becomes(R)

\* Exp(0) returns a tree to parse
ReturnToParse ==
    /\ Within({"parse"})
    /\ parser.ret.kind = "tree"
    /\ \E P \in {ParserOf} :
       \E T \in {Before} :
       \E R \in {Then(Expected(P, T, <<>>, "parse"), LAMBDA E :
                      [Popped(E) EXCEPT !.status = "done"])} :
          Becomes(R)

MaxSteps == 4

\* a digit, a sign, a postfix operator, parentheses and a tabulation
StepSigns == {<<"1">>, <<"-">>, <<"sq">>, <<"(">>, <<")">>, <<"\t">>}
\* a digit, brackets, the separator of a list, a quote and a space
StepLists == {<<"1">>, <<"[">>, <<"]">>, <<",">>, <<"\"">>, <<" ">>}
\* the name of a function, parentheses, a digit and a binary operator
StepCalls == {<<"a", "b", "s">>, <<"(">>, <<")">>, <<"1">>, <<"+">>}
\* an operator that is a word, in both cases, a literal, a digit and a space
StepWords == {<<"o", "r">>, <<"O", "R">>, <<"m", "e", "m">>, <<"1">>, <<" ">>}

StepFormulas ==
    Sentences(StepSigns, MaxSteps) \cup Sentences(StepLists, MaxSteps)
        \cup Sentences(StepCalls, MaxSteps)

\* no formula has been handed to parse yet
InitSteps == Start(<<>>, "idle")

\* one step of a parse under way
Steps ==
    \/ CallExp
    \/ CallArray
    \/ ReturnToExp
    \/ PostfixLoop
    \/ ReturnToPrimary
    \/ ReturnToArray
    \/ ReturnToParse

NextSteps ==
    \/ \E f \in StepFormulas : Construct(DefaultCalculator, f)
    \/ \E f \in Sentences(StepWords, MaxSteps) : Construct(SpellingCalculator, f)
    \/ Steps

MaxFair == 2

\* the formulas of at most MaxFair of these pieces, and formulas in which the
\* calls of Exp, Primary and Array are nested
FairFormulas ==
    Sentences(StepSigns, MaxFair) \cup Sentences(StepLists, MaxFair)
        \cup Sentences(StepCalls, MaxFair)
        \cup {<<"(", "-", "1", ")">>, <<"(", "(", "1", ")", ")">>, <<"-", "-", "1", "sq", "sq">>,
              <<"1", "+", "1", "*", "1", "+", "1">>, <<"[", "1", ",", " ", "[", "1", "]", "]">>,
              <<"a", "b", "s", "(", "-", "1", ")">>, <<"a", "b", "s", "(", ")">>,
              <<"a", "b", "s", "(", "a", "b", "s", "(", "1", ")", ",", "1", ")">>,
              <<"[", "(", "\t", "1", ")", "]">>, <<"(", "(", "(", "(", "(">>,
              <<"[", "\"", "1", "\"", ",", "\"", "]">>}

NextFair ==
    \/ \E f \in FairFormulas : Construct(DefaultCalculator, f)
    \/ \E f \in Sentences(StepWords, MaxFair) : Construct(SpellingCalculator, f)
    \/ Steps

\* every formula is parsed, one step of the parser at a time
SpecSteps == InitSteps /\ [][NextSteps]_vars

\* a parse that has started takes a step whenever it can: parse is one
\* synchronous call
SpecStepsFair == InitSteps /\ [][NextFair]_vars /\ WF_vars(Steps)

InitChain == \E f \in ChainFormulas : Start(f, "ready")

NextChain == Parse \/ ReduceParsed

\* every chain is parsed and reduced
SpecChain == InitChain /\ [][NextChain]_vars

\* every operation is parsed and reduced
SpecOperators == InitOperators /\ [][NextChain]_vars

\* every formula of operators on integers and literals is parsed and reduced
SpecSync == InitSync /\ [][NextChain]_vars

\* every operation is parsed and reduced on the embedder's registry
SpecPartial == InitPartial /\ [][NextChain]_vars


(***************************************************************************)
(* Properties of the parser and of the formatter.                          *)
(***************************************************************************)
RECURSIVE Shape(_)
\* the structure of a tree: its kinds, sources, constants and operands, without
\* the tokens as they were written
Shape(tree) ==
    CASE tree.kind = "constant" -> [kind |-> "constant", type |-> tree.type, value |-> tree.value]
      [] tree.kind = "literal" -> [kind |-> "literal", source |-> tree.source]
      [] tree.kind = "array" ->
            [kind |-> "array", params |-> [i \in 1..Len(tree.params) |-> Shape(tree.params[i])]]
      [] tree.kind = "grouping" -> [kind |-> "grouping", left |-> Shape(tree.left)]
      [] tree.kind = "binary" ->
            [kind |-> "binary", source |-> tree.source, left |-> Shape(tree.left),
             right |-> Shape(tree.right)]
      [] tree.kind = "prefix" ->
            [kind |-> "prefix", source |-> tree.source, right |-> Shape(tree.right)]
      [] tree.kind = "postfix" ->
            [kind |-> "postfix", source |-> tree.source, left |-> Shape(tree.left)]
      [] tree.kind = "function" ->
            [kind |-> "function", source |-> tree.source,
             params |-> [i \in 1..Len(tree.params) |-> Shape(tree.params[i])]]

\* whether operand is a binary node whose operator binds less than the operator of
\* the binary node it is an operand of
BindsLess(calculator, node, operand) ==
    /\ operand.kind = "binary"
    /\ Get(calculator.binaryOperators, operand.source).precedence
           < Get(calculator.binaryOperators, node.source).precedence

RECURSIVE PrecedenceRespected(_, _)
\* no binary node of the tree has a direct operand that binds less than itself
PrecedenceRespected(calculator, tree) ==
    CASE tree.kind \in {"constant", "literal"} -> TRUE
      [] tree.kind \in {"array", "function"} ->
            \A i \in 1..Len(tree.params) : PrecedenceRespected(calculator, tree.params[i])
      [] tree.kind \in {"grouping", "postfix"} -> PrecedenceRespected(calculator, tree.left)
      [] tree.kind = "prefix" -> PrecedenceRespected(calculator, tree.right)
      [] tree.kind = "binary" ->
            /\ ~BindsLess(calculator, tree, tree.left)
            /\ ~BindsLess(calculator, tree, tree.right)
            /\ PrecedenceRespected(calculator, tree.left)
            /\ PrecedenceRespected(calculator, tree.right)

RECURSIVE LeftMost(_)
\* the first operand of a chain of binary operators
LeftMost(tree) == IF tree.kind = "binary" THEN LeftMost(tree.left) ELSE tree

\* the trees of the number n and of "left o right" as the parser builds them
Constant(n) == newConstant("integer", Num(n), NatToString(n, 10))
BinaryOf(o, left, right) ==
    newBinary(Get(DefaultCalculator.binaryOperators, o), left, right, o)
\* the constant a calculation on numbers resolves with
Result(n) == newConstant("float", Num(n), <<>>)

\* C1: parse returns a tree only when the whole formula has been consumed:
\* whenever parse returns normally, the position of the parser is the length of
\* the trimmed formula, tabs between the tokens included
WholeFormulaConsumed ==
    pc # "ready" /\ parsed.ok => parsed.index = Len(Trim(formula))

\* C2: higher precedence binds tighter: in every tree parse returns, no binary
\* node has as a direct operand a binary node of strictly lower precedence,
\* operands that carry prefix or postfix operators included
HigherBindsTighter ==
    pc # "ready" /\ parsed.ok => PrecedenceRespected(run.calculator, parsed.tree)

\* the value of "x o y", computed on the integers
Arith(o, x, y) ==
    CASE o = Plus -> x + y
      [] o = Minus -> x - y
      [] o = Times -> x * y
      [] o = Power -> x ^ y

\* what parse and reduce make of the chain "a o1 b o2 c" when it is read as
\* o2(o1(a, b), c): the tree, and once reduced the only value resolved
ReadLeftFirst(a, o1, b, o2, c) ==
    /\ parsed.ok
    /\ parsed.tree = BinaryOf(o2, BinaryOf(o1, Constant(a), Constant(b)), Constant(c))
    /\ pc = "reduced" =>
          /\ run.resolved = <<Result(Arith(o2, Arith(o1, a, b), c))>>
          /\ run.rejected = <<>>

\* the same when the chain is read as o1(a, o2(b, c))
ReadRightFirst(a, o1, b, o2, c) ==
    /\ parsed.ok
    /\ parsed.tree = BinaryOf(o1, Constant(a), BinaryOf(o2, Constant(b), Constant(c)))
    /\ pc = "reduced" =>
          /\ run.resolved = <<Result(Arith(o1, a, Arith(o2, b, c)))>>
          /\ run.rejected = <<>>

\* C3: associativity: a chain "a op b op c" of left-associative operators of the
\* same precedence is parsed as op(op(a, b), c) and reduces to that value, and a
\* chain of the right-associative "**" is parsed as op(a, op(b, c)) and reduces to
\* that value; so "8 - 3 - 2" reduces to 3 and "2 ** 2 ** 3" to 256
Associativity ==
    pc # "ready" =>
        /\ \A a \in ChainOperands, b \in ChainOperands, c \in ChainOperands, o \in LeftPairs :
              formula = Chain(a, o[1], b, o[2], c) => ReadLeftFirst(a, o[1], b, o[2], c)
        /\ \A t \in PowerOperands :
              formula = Chain(t[1], Power, t[2], Power, t[3])
                  => ReadRightFirst(t[1], Power, t[2], Power, t[3])

\* C3: "8 - 3 - 2" has been parsed and reduced, to 3
EightMinusThreeMinusTwo ==
    /\ pc = "reduced"
    /\ formula = Chain(8, Minus, 3, Minus, 2)
    /\ parsed.tree.left.kind = "binary"
    /\ run.resolved = <<Result(3)>>

\* C4: a postfix operator does not end the expression: a formula made of a
\* primary, a postfix operator, a binary operator and an expression parse accepts
\* is accepted, as a binary node whose first operand is the postfix node
PostfixThenBinary ==
    /\ pc # "ready"
    /\ Len(formula) >= 4
    /\ SubSeq(formula, 1, 2) = <<"1", "sq">>
    /\ formula[3] \in {"+", "*"}
    /\ parse(run.calculator, SubSeq(formula, 4, Len(formula))).ok
    => /\ parsed.ok
       /\ parsed.tree.kind = "binary"
       /\ Shape(LeftMost(parsed.tree))
             = Shape(newPostfix(Get(run.calculator.postfixOperators, <<"sq">>),
                                Constant(1), <<"sq">>))

\* C5: format and parse round trip: the text format makes of a tree parse
\* returned is accepted by parse, as a tree of the same structure, nested prefix
\* operators included
RoundTrip ==
    pc = "reparsed" => reparsed.ok /\ Shape(reparsed.tree) = Shape(parsed.tree)


(***************************************************************************)
(* Properties of the reduction.                                            *)
(***************************************************************************)
\* the current value of the editable literal "mem"
Mem(S) == Get(S.calculator.literals, MemToken).value

\* "&&" and "||" nodes
IsLogical(node) ==
    node.kind = "binary" /\ node.source \in {<<"&", "&">>, <<"|", "|">>}

\* a call of the embedder's function effect()
IsEffect(node) == node.kind = "function" /\ node.source = <<"e", "f", "f", "e", "c", "t">>

\* whether the reduced left operand a settles the result of the logical node: a
\* falsy value for "&&", a truthy one for "||"
Settles(node, a) ==
    /\ a.kind = "constant"
    /\ IF node.source = <<"&", "&">> THEN ~Truthy(a.value) ELSE Truthy(a.value)

\* C6: short-circuit: the right operand of "&&" or "||" is reduced only after the
\* left one, and never when the left one reduced to a value that settles the
\* result (falsy for "&&", truthy for "||"): none of its functions is invoked and
\* none of its assignments happens, so "false && effect()" never invokes effect
\* and "slow(1) || (mem = 2)" never writes 2 to mem
ShortCircuit ==
    /\ \A p \in run.visited :
          p # <<>> /\ Last(p) = 2 /\ IsLogical(At(target, Parent(p))) =>
              /\ Append(Parent(p), 1) \in run.visited
              /\ Frame(run, Parent(p)).mode = "b"
              /\ ~Settles(At(target, Parent(p)), Frame(run, Parent(p)).a)
    /\ run.effects > 0 => \E p \in run.visited : IsEffect(At(target, p))
    /\ Mem(run) # Num(2)

\* C6: "false && effect()" has been reduced, to false: the left operand was
\* reduced, the right one was not and effect() did not run
FalseAndEffectReduced ==
    /\ formula = FalseAndEffect
    /\ parsed.ok
    /\ target = parsed.tree
    /\ run.resolved = <<newConstant("boolean", Bool(FALSE), <<"f", "a", "l", "s", "e">>)>>
    /\ <<1>> \in run.visited
    /\ <<2>> \notin run.visited
    /\ run.effects = 0

RECURSIVE Assigns(_)
\* whether the tree holds an assignment to a literal
Assigns(tree) ==
    CASE tree.kind \in {"constant", "literal"} -> FALSE
      [] tree.kind \in {"array", "function"} ->
            \E i \in 1..Len(tree.params) : Assigns(tree.params[i])
      [] tree.kind \in {"grouping", "postfix"} -> Assigns(tree.left)
      [] tree.kind = "prefix" -> Assigns(tree.right)
      [] tree.kind = "binary" ->
            \/ tree.source = <<"=">> /\ tree.left.kind = "literal"
            \/ Assigns(tree.left)
            \/ Assigns(tree.right)

\* the tree is "mem = n"
IsMemIs(tree, n) ==
    /\ tree.kind = "binary" /\ tree.source = <<"=">>
    /\ Shape(tree.left) = [kind |-> "literal", source |-> MemToken]
    /\ Shape(tree.right) = Shape(Constant(n))

\* the tree is "mem + 1"
IsMemPlusOne(tree) ==
    /\ tree.kind = "binary" /\ tree.source = Plus
    /\ Shape(tree.left) = [kind |-> "literal", source |-> MemToken]
    /\ Shape(tree.right) = Shape(Constant(1))

\* once "mem = 5" has resolved mem is 5, and "mem + 1" resolves to one more than
\* the value mem has when the tree is reduced
ReadAtReduction ==
    /\ IsMemIs(target, 5) /\ run.resolved # <<>> => Mem(run) = Num(5)
    /\ IsMemPlusOne(target) /\ run.resolved # <<>> =>
          run.resolved = <<Result(ToNumber(Mem(run)) + 1)>>

\* mem changes only while a tree that holds an assignment is reduced: parsing,
\* keeping a tree and starting another reduction leave it as it is
WrittenByAssignment == Mem(run') # Mem(run) => Assigns(target')

\* C7: a value written to the editable literal mem persists across the parse and
\* reduce calls made on one calculator: it stays until the next write, and a tree
\* that reads mem, parsed before or after the write, sees the value mem has when
\* the tree is reduced; so "mem = 5" followed by "mem + 1" resolves to 6
MemPersists == []ReadAtReduction /\ [][WrittenByAssignment]_vars

\* C7: "mem + 1" was parsed and kept, "mem = 5" was parsed and reduced, and the
\* tree kept has then been reduced, to 6
KeptTreeSeesFive ==
    /\ formula = MemIsFive
    /\ target = kept
    /\ IsMemPlusOne(target)
    /\ Mem(run) = Num(5)
    /\ run.resolved = <<Result(6)>>

\* C8: for one call of context.reduce, reject is invoked at most once, also when
\* two operands of one operator, or two elements of one array, fail
RejectedAtMostOnce == Len(run.rejected) <= 1

\* the root of the tree hands its operands to reduceAll with callbacks that
\* pass what they receive on to the caller's
RootThroughReduceAll ==
    /\ target # UndefinedTree
    /\ <<>> \in DOMAIN run.frames
    /\ ThroughReduceAll(run, target, <<>>)

\* C9: reduceAll never invokes both callbacks: resolve is invoked at most once
\* and only when every element has resolved, and once an element has rejected
\* resolve is not invoked, in whatever order the other elements complete
NeverBothCallbacks ==
    RootThroughReduceAll =>
        /\ Len(run.resolved) <= 1
        /\ ~(run.resolved # <<>> /\ run.rejected # <<>>)
        /\ run.resolved # <<>> =>
              /\ DOMAIN run.pending = {}
              /\ \A i \in 1..Len(Frame(run, <<>>).values) :
                    Frame(run, <<>>).values[i] # UndefinedTree
              /\ \A k \in 1..Len(run.completed) : run.completed[k][2] = "resolve"

\* C9: in "[fail(), slow(1)]" fail() has rejected, slow(1) has then completed by
\* invoking its resolve, and resolve has not been invoked
RejectedThenCompleted ==
    /\ formula = FailThenSlow
    /\ parsed.ok
    /\ target = parsed.tree
    /\ run.rejected = <<"failed">>
    /\ run.completed = <<<<<<2>>, "resolve">>>>
    /\ run.resolved = <<>>

\* what an element of the arrays reduced here reduces to: a constant to itself,
\* slow(x) to x
ReductionOf(element) == IF element.kind = "constant" THEN element ELSE element.params[1]

\* C10: when reduceAll resolves, the array has the length of the list and its
\* i-th entry is the reduction of the i-th element, in whatever order the
\* asynchronous elements invoked their resolve
PositionalOrder ==
    target.kind = "array" /\ run.resolved # <<>> =>
        /\ run.resolved[1].kind = "array"
        /\ Len(run.resolved[1].params) = Len(target.params)
        /\ \A i \in 1..Len(target.params) :
              Shape(run.resolved[1].params[i]) = Shape(ReductionOf(target.params[i]))

\* C10: "[slow(1), 2, slow(3)]" has resolved, slow(3) having completed before slow(1)
ResolvedInReverseOrder ==
    /\ formula = ThreeSlow
    /\ parsed.ok
    /\ target = parsed.tree
    /\ run.completed = <<<<<<3>>, "resolve">>, <<<<1>>, "resolve">>>>
    /\ Len(run.resolved) = 1
    /\ [i \in 1..3 |-> run.resolved[1].params[i].value] = <<Num(1), Num(2), Num(3)>>

\* C11: when every function and operator reached while a tree is reduced invokes
\* its callback synchronously (no function is left pending and none completed
\* later), the caller's resolve or reject has been invoked by the time the call
\* of context.reduce returns
SynchronousEndToEnd ==
    /\ target # UndefinedTree
    /\ DOMAIN run.pending = {}
    /\ run.completed = <<>>
    /\ run.ended = "no"
    => Len(run.resolved) + Len(run.rejected) >= 1

\* C11: "1 + 2 * 3", which reaches synchronous operators only, has been handed to
\* context.reduce, and resolve has been invoked with 7 when it returned
SevenOnReturn ==
    /\ formula = OnePlusTwoTimesThree
    /\ parsed.ok
    /\ target = parsed.tree
    /\ run.completed = <<>>
    /\ DOMAIN run.pending = {}
    /\ run.resolved = <<Result(7)>>

\* whether pre is the beginning of f
StartsWith(f, pre) == Len(pre) <= Len(f) /\ SubSeq(f, 1, Len(pre)) = pre

\* what is left of f after its beginning pre
After(f, pre) == SubSeq(f, Len(pre) + 1, Len(f))

\* beginnings after which the parser asks the tokenizer for a value, at the
\* position that follows them when neither a space nor one more "+" does
BeforeValue == {<<>>, <<"+">>, <<"1", "+">>, <<"1", "+", "1", "+">>}

\* whether the text r, which opens with a quote, has a later quote that no
\* backslash precedes
Closed(r) == \E i \in 2..Len(r) : r[i] = "\"" /\ r[i - 1] # "\\"

\* C12: when the tokenizer is positioned on a double quote that no unescaped quote
\* closes before the end of the formula, parse fails with the error 'Un-terminated
\* string', whose index is the position of the opening quote and whose length
\* runs to the end of the formula; a quote that follows a backslash closes nothing
UnterminatedStringReported ==
    pc # "ready" =>
        \A pre \in BeforeValue :
            /\ StartsWith(formula, pre)
            /\ After(formula, pre) # <<>>
            /\ Head(After(formula, pre)) = "\""
            /\ ~Closed(After(formula, pre))
            => /\ ~parsed.ok
               /\ parsed.error.message = UnterminatedString
               /\ parsed.error.index = Len(pre)
               /\ parsed.error.index + parsed.error.length = Len(formula)

\* C12: the formula "1\" (quote, 1, backslash, quote) has been parsed: the string
\* opened at position 0 is reported as not terminated, over the 4 characters
EscapedQuoteLeftOpen ==
    /\ formula = <<"\"", "1", "\\", "\"">>
    /\ pc = "parsed"
    /\ ~parsed.ok
    /\ parsed.error.message = UnterminatedString
    /\ parsed.error.index = 0
    /\ parsed.error.length = 4

\* the error 'Expecting a value' for the token t found at position index of f
ExpectedValueAt(f, index, t) ==
    [ok |-> FALSE,
     error |-> [formula |-> f, index |-> index, length |-> Len(t),
                message |-> ExpectedValue, found |-> t]]

\* whether a value can begin with the token: a prefix operator, a parenthesis, a
\* bracket or the name of a function begins one
BeginsValue(calculator, t) ==
    \/ HasOwn(calculator.prefixOperators, ToLowerCase(t))
    \/ t \in {<<"(">>, <<"[">>}
    \/ HasOwn(calculator.functions, ToLowerCase(t))

\* whether the token is no value: a separator of the grammar, the empty token of
\* the end of the formula, or a text that is no literal and that no type accepts
NoValue(P, t) ==
    \/ \E i \in 1..Len(P.separators) : P.separators[i] = ToLowerCase(t)
    \/ t = <<>>
    \/ /\ ~HasOwn(P.literals, ToLowerCase(t))
       /\ \A i \in 1..Len(P.types) : TypeParse(P.types[i], t) = Undefined

\* C13: where a value is required and the token is a separator or an operator
\* that cannot begin a value, the empty token of the end of the formula, or a
\* text that is no literal and that no type accepts, parse returns no tree and
\* fails with the error 'Expecting a value', which carries the token and its
\* position; so "foo" fails with that error
ExpectedValueReported ==
    pc # "ready" =>
        \A pre \in BeforeValue :
            /\ StartsWith(Trim(formula), pre)
            /\ ~StartsWith(Trim(formula), pre \o <<" ">>)
            /\ ~StartsWith(Trim(formula), pre \o <<"+">>)
            =>  Bind(CalculatorParser(run.calculator, formula), LAMBDA P :
                Bind(next(P, Len(pre)), LAMBDA n :
                    /\ n.ok
                    /\ ~BeginsValue(run.calculator, n.token)
                    /\ NoValue(P, n.token)
                    => parsed = ExpectedValueAt(P.formula, Len(pre), n.token)))

\* C13: "foo" has been parsed, and the error 'Expecting a value' reports it
FooIsNoValue ==
    /\ formula = <<"f", "o", "o">>
    /\ pc = "parsed"
    /\ parsed = ExpectedValueAt(formula, 0, formula)

\* C14: the span of a parse error, from index to index + length, taken in the
\* string the caller passed to parse is the offending token, that is the span
\* taken in the trimmed string the parser worked on, leading spaces or not
ErrorSpanInOriginal ==
    pc # "ready" /\ ~parsed.ok =>
        Substring(formula, parsed.error.index, parsed.error.index + parsed.error.length)
            = Substring(Trim(formula), parsed.error.index,
                        parsed.error.index + parsed.error.length)

\* the letter and the radix of a number notation
RadixLetter(type) ==
    CASE type = "hexadecimal" -> "x" [] type = "octal" -> "o" [] type = "binary" -> "b"
RadixOf(type) ==
    CASE type = "hexadecimal" -> 16 [] type = "octal" -> 8 [] type = "binary" -> 2

\* the value of the characters that are digits in the tokens parsed here
DigitWorth == ("0" :> 0) @@ ("1" :> 1) @@ ("8" :> 8) @@ ("F" :> 15) @@ ("b" :> 11)

\* whether the token is the prefix of the notation followed by digits of its radix
WholeRadixToken(token, type) ==
    /\ Len(token) >= 3
    /\ SubSeq(token, 1, 2) = <<"0", RadixLetter(type)>>
    /\ \A k \in 3..Len(token) :
          token[k] \in DOMAIN DigitWorth /\ DigitWorth[token[k]] < RadixOf(type)

RECURSIVE Weighted(_, _, _)
\* the integer the digits denote, from the k-th on: each digit times the power of
\* the radix of its place
Weighted(digits, radix, k) ==
    IF k > Len(digits) THEN 0
    ELSE DigitWorth[digits[k]] * radix ^ (Len(digits) - k) + Weighted(digits, radix, k + 1)

\* a token parsed: a token of one of the notations gives the constant of that
\* type and of the integer it denotes, any other token gives no such constant
RadixTokenParsed ==
    pc = "parsed" =>
        \A type \in RadixTypes :
            IF WholeRadixToken(formula, type)
            THEN /\ parsed.ok
                 /\ parsed.tree = newConstant(type, Num(Weighted(After(formula, <<"0", RadixLetter(type)>>),
                                                                 RadixOf(type), 1)),
                                              formula)
                 /\ TypeParse(type, formula) = parsed.tree.value
            ELSE /\ TypeParse(type, formula) = Undefined
                 /\ parsed.ok => ~(parsed.tree.kind = "constant" /\ parsed.tree.type = type)

\* a constant formatted: the text is "-" if the value is negative, the prefix of
\* the notation, then digits; the text of a value that is not negative is parsed
\* back, by the type and by the parser, to that value
RadixConstantFormatted ==
    pc \in {"formatted", "reparsed"} /\ kept # UndefinedTree =>
        /\ StartsWith(text, (IF kept.value.n < 0 THEN <<"-">> ELSE <<>>)
                                \o <<"0", RadixLetter(kept.type)>>)
        /\ kept.value.n >= 0 => TypeParse(kept.type, text) = kept.value
        /\ kept.value.n >= 0 /\ pc = "reparsed" =>
              reparsed.ok /\ Shape(reparsed.tree) = Shape(kept)

\* C15: the hexadecimal, octal and binary types accept only whole tokens 0x, 0o,
\* 0b followed by digits of the radix and parse them to the integer they denote
\* ("0x10" is 16, "0o10" is 8, "0b10" is 2); their format writes the same
\* prefix, after a "-" for a negative value, and parsing the text format makes
\* of a value that is not negative gives the value back
RadixNotations == RadixTokenParsed /\ RadixConstantFormatted

\* C15: the hexadecimal constant 16 has been formatted, as "0x10", and the text
\* has been parsed, to the hexadecimal constant 16
SixteenRoundTrip ==
    /\ pc = "reparsed"
    /\ kept = newConstant("hexadecimal", Num(16), <<>>)
    /\ text = <<"0", "x", "1", "0">>
    /\ reparsed.ok
    /\ reparsed.tree = newConstant("hexadecimal", Num(16), text)

\* the only tree the reduction has resolved with, nothing being rejected
ResolvedWith(tree) == run.resolved = <<tree>> /\ run.rejected = <<>>

\* C16: the binary "+" on two resolved operands: two strings reduce to their
\* concatenation, typed string ('"a" + "b"' to "ab"); two numbers reduce to
\* their sum, typed float ("1 + 2" to 3); whatever the operands, the type of the
\* result is string exactly when its value is a string
PlusOnValues ==
    pc = "reduced" =>
        /\ \A x \in StringOperands, y \in StringOperands :
              formula = Sum(Quoted(x), Quoted(y))
                  => ResolvedWith(newConstant("string", Str(x \o y), <<>>))
        /\ \A x \in NumberOperands, y \in NumberOperands :
              formula = Sum(NatToString(x, 10), NatToString(y, 10))
                  => ResolvedWith(newConstant("float", Num(x + y), <<>>))
        /\ target.kind = "binary" /\ target.source = <<"+">> =>
              /\ Len(run.resolved) = 1
              /\ run.resolved[1].kind = "constant"
              /\ run.resolved[1].type = "string" <=> run.resolved[1].value.k = "str"
              /\ run.resolved[1].type # "string" => run.resolved[1].type = "float"

\* C16: '"a" + "b"' has been parsed and reduced, to the string "ab"
StringsConcatenated ==
    /\ pc = "reduced"
    /\ formula = <<"\"", "a", "\"", " ", "+", " ", "\"", "b", "\"">>
    /\ run.resolved = <<newConstant("string", Str(<<"a", "b">>), <<>>)>>

RECURSIVE Product(_)
\* 1 * 2 * ... * n
Product(n) == IF n = 0 THEN 1 ELSE Product(n - 1) * n

\* C17: the postfix "!" is the factorial: for every integer n that is not
\* negative, "n!" is parsed as the postfix operator on the constant n and
\* reduces to the constant 1 * 2 * ... * n, of type integer; 0! is 1 and 5! is 120
Factorial ==
    \A n \in 0..MaxFactorial :
        formula = Postfixed(n, "!") /\ pc # "ready" =>
            /\ parsed.ok
            /\ parsed.tree =
                  newPostfix(Get(DefaultCalculator.postfixOperators, <<"!">>), Constant(n), <<"!">>)
            /\ pc = "reduced" => ResolvedWith(newConstant("integer", Num(Product(n)), <<>>))

\* C17: "5!" has been parsed and reduced, to the integer 120
FiveFactorial ==
    /\ pc = "reduced"
    /\ formula = <<"5", "!">>
    /\ run.resolved = <<newConstant("integer", Num(120), <<>>)>>

\* the tree of "n" followed by the postfix operator o, as the parser builds it
PostfixOf(o, n) ==
    newPostfix(Get(DefaultCalculator.postfixOperators, <<o>>), Constant(n), <<o>>)

\* the postfix operators "²" and "³" reduce their operand x to pow(x, 2) and to
\* pow(x, 3), with the type of the operand
SquareAndCube ==
    \A n \in 0..MaxBase :
        /\ formula = Postfixed(n, "sq") /\ pc # "ready" =>
              /\ parsed.ok /\ parsed.tree = PostfixOf("sq", n)
              /\ pc = "reduced" => ResolvedWith(newConstant("integer", Num(n * n), <<>>))
        /\ formula = Postfixed(n, "cu") /\ pc # "ready" =>
              /\ parsed.ok /\ parsed.tree = PostfixOf("cu", n)
              /\ pc = "reduced" => ResolvedWith(newConstant("integer", Num(n * n * n), <<>>))

\* C18: "4²" reduces to 16 and "2³" reduces to 8; the postfix operators "²" and
\* "³" reduce their operand x to pow(x, 2) and to pow(x, 3)
PostfixPowers ==
    /\ SquareAndCube
    /\ pc = "reduced" /\ formula = <<"4", "sq">> => Len(run.resolved) = 1 /\ run.resolved[1].value = Num(16)
    /\ pc = "reduced" /\ formula = <<"2", "cu">> => Len(run.resolved) = 1 /\ run.resolved[1].value = Num(8)

\* C18 as it is stated: "4²" reduces to 16 and "2³" reduces to 27; the postfix
\* operators "²" and "³" reduce their operand x to pow(x, 2) and to pow(x, 3)
PostfixPowersAsStated ==
    /\ SquareAndCube
    /\ pc = "reduced" /\ formula = <<"4", "sq">> => Len(run.resolved) = 1 /\ run.resolved[1].value = Num(16)
    /\ pc = "reduced" /\ formula = <<"2", "cu">> => Len(run.resolved) = 1 /\ run.resolved[1].value = Num(27)

\* C18: "2³" has been parsed and reduced, to 8
TwoCubed ==
    /\ pc = "reduced"
    /\ formula = <<"2", "cu">>
    /\ run.resolved = <<newConstant("integer", Num(8), <<>>)>>

\* the tree is "lit = rhs"
IsAssignment(tree) ==
    tree.kind = "binary" /\ tree.source = <<"=">> /\ tree.left.kind = "literal"

\* the value and the type the calculator of S stores for the literal
Stored(S, literal) ==
    [value |-> Get(S.calculator.literals, literal).value,
     type |-> Get(S.calculator.literals, literal).type]

\* a step of the reduction of the target: a call of context.reduce, or the
\* completion of a function
ReductionStep == reductions' # reductions \/ run' # run

\* what the caller's resolve is invoked with during the step
NewlyResolved ==
    IF reductions' # reductions THEN run'.resolved ELSE After(run'.resolved, run.resolved)

\* the function that completes in the step, and how
Completing ==
    CHOOSE c \in (DOMAIN run.pending) \X {"resolve", "reject"} :
        run' = Complete(run, target, c[1], c[2])

\* the step as it is for the right-hand side of the target reduced on its own
RhsAlone ==
    IF reductions' # reductions THEN StartReduce(run.calculator, target'.right)
    ELSE Complete(StartReduce(run.calculator, target.right), target.right,
                  Tail(Completing[1]), Completing[2])

\* what a step of the reduction of "lit = rhs" does when the literal is one of lits
Assigned(lits) ==
    ReductionStep /\ IsAssignment(target') /\ target'.left.source \in lits =>
        /\ RhsAlone.resolved = <<>> => run'.calculator = run.calculator
        /\ \A b \in {RhsAlone.resolved[i] : i \in DOMAIN RhsAlone.resolved} :
              /\ NewlyResolved = <<b>>
              /\ IF isValue(run.calculator, b)
                 THEN /\ Stored(run', target'.left.source) =
                            [value |-> getValue(run.calculator, b),
                             type |-> getType(run.calculator, b)]
                      /\ b.kind = "constant"
                 ELSE run'.calculator = run.calculator

\* C19: assignment takes effect only on a right-hand side that reduces to a
\* value: in the reduction of "lit = rhs", while rhs has not reduced, and when it
\* reduces to a tree that is not a value, the value and the type of the literal
\* are left as they are; when rhs reduces to a value v of type t, the value of the
\* literal becomes v, its type t, and the reduction resolves with that value
AssignmentTakesEffect == [][Assigned({MemToken, <<"p", "i">>})]_vars

(***************************************************************************)
(* Properties of the registry.                                             *)
(***************************************************************************)
\* the five tables, and the table a call writes
Tables == {"prefixOperators", "postfixOperators", "binaryOperators", "literals", "functions"}
TableOf(call) ==
    CASE call.method = "addLiteral" -> "literals"
      [] call.method = "addFunction" -> "functions"
      [] call.entry.associativity = "prefix" -> "prefixOperators"
      [] call.entry.associativity = "postfix" -> "postfixOperators"
      [] OTHER -> "binaryOperators"

\* the tokens registered, as they are written and in lower case
KeysOf == {<<"-">>, <<"o", "r">>, <<"O", "R">>, <<"x">>, <<"X">>}
InLowerCase ==
    (<<"-">> :> <<"-">>) @@ (<<"o", "r">> :> <<"o", "r">>) @@ (<<"O", "R">> :> <<"o", "r">>)
        @@ (<<"x">> :> <<"x">>) @@ (<<"X">> :> <<"x">>)

\* the calls that wrote the table under the key, by their rank
Wrote(table, key) ==
    {i \in 1..Len(calls) : TableOf(calls[i]) = table /\ InLowerCase[calls[i].entry.token] = key}

\* the entries the table holds under the key
Under(table, key) ==
    {i \in 1..Len(run.calculator[table]) : run.calculator[table][i].key = key}

\* C20: after any sequence of calls of addOperator, addLiteral and addFunction,
\* each of the five tables holds an entry under a key exactly when a call of its
\* class registered a token whose lower case is the key, and the entry is the one
\* of the last such call: a call leaves the other tables as they are, so one
\* token can be a prefix, a postfix and a binary operator at once
LastWriteWins ==
    pc = "setup" =>
        \A table \in Tables, key \in KeysOf :
            IF Wrote(table, key) = {}
            THEN Under(table, key) = {}
            ELSE /\ Cardinality(Under(table, key)) = 1
                 /\ \A i \in Wrote(table, key), j \in Under(table, key) :
                       (\A k \in Wrote(table, key) : k <= i) =>
                           /\ run.calculator[table][j].token = calls[i].entry.token
                           /\ [run.calculator[table][j] EXCEPT !.key = calls[i].entry.key]
                                  = calls[i].entry

\* C20: "-" has been registered as a prefix operator, as a binary one, and as a
\* prefix one again with another precedence: the prefix table holds the last
\* one and the binary table still holds its own
MinusTwice ==
    /\ calls = <<[method |-> "addOperator", entry |-> CalculatorOperator(<<"-">>, 1, "prefix")],
                 [method |-> "addOperator", entry |-> CalculatorOperator(<<"-">>, 1, "left")],
                 [method |-> "addOperator", entry |-> CalculatorOperator(<<"-">>, 2, "prefix")]>>
    /\ run.calculator.prefixOperators = <<CalculatorOperator(<<"-">>, 2, "prefix")>>
    /\ run.calculator.binaryOperators = <<CalculatorOperator(<<"-">>, 1, "left")>>
    /\ run.calculator.postfixOperators = <<>>

(***************************************************************************)
(* Properties of the tokenizer and of the names.                           *)
(***************************************************************************)
\* the spellings of f that differ from it by the case of a run of characters
Respellings(f) ==
    {[k \in 1..Len(f) |-> IF a <= k /\ k <= b THEN UpperChar(f[k]) ELSE f[k]] :
        a \in 1..Len(f), b \in 1..Len(f)}

\* whether parse accepts g on the registry, with a tree that refers to the
\* definitions the tree parsed from the formula refers to
SameReading(g) ==
    Bind(parse(run.calculator, g), LAMBDA r : r.ok /\ Shape(r.tree) = Shape(parsed.tree))

\* C21: the names of the functions and of the literals and the tokens of the
\* operators are case-insensitive: when parse accepts a formula, it accepts every
\* spelling of it that differs only by the case of letters, with a tree that
\* refers to the same functions, literals and operators; this on a registry whose
\* operators "or" and "and" are words
CaseInsensitive ==
    pc # "ready" /\ parsed.ok => \A g \in Respellings(formula) : SameReading(g)

\* C23: the tokenizer never splits a registered name: "f()" is parsed to a
\* function node that refers to f for every function f of the registry, and
\* every literal of the registry is parsed to a literal node that refers to it,
\* whatever the operators registered, "or" beside "floor" included
NamesNotSplit ==
    pc # "ready" =>
        /\ \A i \in 1..Len(run.calculator.functions) :
              formula = run.calculator.functions[i].token \o <<"(", ")">> =>
                  /\ parsed.ok
                  /\ Shape(parsed.tree) =
                        [kind |-> "function", source |-> run.calculator.functions[i].key,
                         params |-> <<>>]
        /\ \A i \in 1..Len(run.calculator.literals) :
              formula = run.calculator.literals[i].token =>
                  /\ parsed.ok
                  /\ Shape(parsed.tree) =
                        [kind |-> "literal", source |-> run.calculator.literals[i].key]

\* the separators of the registry that occur in f at position p
SeparatorsAt(f, p) ==
    {sep \in {Separators(run.calculator)[i] : i \in 1..Len(Separators(run.calculator))} :
        StartsAt(f, sep, p)}

\* what next() returns at position p of the trimmed formula f, where no string begins
LongestAt(f, p) ==
    Bind(next(CalculatorParser(run.calculator, formula), p), LAMBDA n :
        /\ n.ok
        /\ IF SeparatorsAt(f, p) # {}
           THEN /\ n.token \in SeparatorsAt(f, p)
                /\ \A sep \in SeparatorsAt(f, p) : Len(sep) <= Len(n.token)
           ELSE IF \E q \in p..(Len(f) - 1) : SeparatorsAt(f, q) # {}
           THEN \A q \in p..(Len(f) - 1) :
                    /\ SeparatorsAt(f, q) # {}
                    /\ \A r \in p..(q - 1) : SeparatorsAt(f, r) = {}
                    => n.token = Trim(SubSeq(f, p + 1, q))
           ELSE n.token = SubSeq(f, p + 1, Len(f)))

\* C22: the tokenizer takes the longest match: at a position where several
\* separators begin (">", ">>", ">>>", or "=", "==", "==="), next() returns the
\* longest separator that occurs there; when the first separator begins further
\* on, it returns the trimmed text before it; when no separator occurs any more,
\* it returns the rest of the formula
LongestMatch ==
    pc # "ready" =>
        \A p \in 0..(Len(Trim(formula)) - 1) : LongestAt(Trim(formula), p)

\* C22: "1>>>=" has been parsed: at position 1, where ">", ">>" and ">>>" all
\* begin, next() returned ">>>", and the error is reported on what follows it
ThreeChevrons ==
    /\ pc = "parsed"
    /\ formula = <<"1", ">", ">", ">", "=">>
    /\ next(CalculatorParser(run.calculator, formula), 1).token = <<">", ">", ">">>
    /\ ~parsed.ok
    /\ parsed.error.index = 4

(***************************************************************************)
(* Properties of the default reduce procedures.                            *)
(***************************************************************************)
\* the operands of a node, in their positions
OperandsOf(node) ==
    CASE node.kind = "binary" -> <<node.left, node.right>>
      [] node.kind = "prefix" -> <<node.right>>
      [] node.kind = "postfix" -> <<node.left>>
      [] node.kind = "function" -> node.params

\* what each operand of the node reduces to on its own
ReducedOperands(node) ==
    [i \in 1..Len(OperandsOf(node)) |->
        StartReduce(run.calculator, OperandsOf(node)[i]).resolved[1]]

\* what the calculate of the node does with the reduced operands
CalculateOf(c, node, values) ==
    CASE node.kind = "binary" ->
            BinaryCalculate(node.source, getValue(c, values[1]), getValue(c, values[2]))
      [] node.kind = "prefix" ->
            PrefixCalculate(node.source, getType(c, values[1]), getValue(c, values[1]))
      [] node.kind = "postfix" ->
            PostfixCalculate(node.source, getType(c, values[1]), getValue(c, values[1]))
      [] node.kind = "function" ->
            FunctionCalculate(node.source,
                              [i \in 1..Len(values) |-> getType(c, values[i])],
                              [i \in 1..Len(values) |-> getValue(c, values[i])])

\* whether the tree is a node of the kind and source of node over the operands
SameOperation(tree, node, values) ==
    /\ tree.kind = node.kind
    /\ tree.source = node.source
    /\ OperandsOf(tree) = values

\* C24: the default reduce procedures evaluate partially: for an operator or a
\* function defined through calculate, every operand is reduced; calculate is
\* invoked exactly when every reduced operand is a value; otherwise the
\* reduction resolves, and does not reject, with a new node of the same kind
\* and source whose operands are the reduced operands in the same positions
PartialEvaluation ==
    /\ pc = "reduced"
    /\ target.kind \in {"binary", "prefix", "postfix", "function"}
    /\ SourceOf(run.calculator, target).reduce = "calc"
    => Bind(ReducedOperands(target), LAMBDA values :
        /\ \A i \in 1..Len(values) : <<i>> \in run.visited
        /\ run.rejected = <<>>
        /\ Len(run.resolved) = 1
        /\ IF \A i \in 1..Len(values) : isValue(run.calculator, values[i])
           THEN /\ run.resolved[1] = CalculateOf(run.calculator, target, values).tree
                /\ run.resolved[1].kind = "constant"
           ELSE SameOperation(run.resolved[1], target, values))

\* C24: "1 + x", x being a symbol without value, has been reduced, to the node
\* "+" over the constant 1 and the literal x in their positions
OnePlusUnknown ==
    /\ pc = "reduced"
    /\ formula = <<"1", " ", "+", " ", "x">>
    /\ Len(run.resolved) = 1
    /\ run.resolved[1].kind = "binary"
    /\ run.resolved[1].source = <<"+">>
    /\ run.resolved[1].left = Constant(1)
    /\ run.resolved[1].right.kind = "literal"

\* the tree has the elements as its params, in their order: as many params as
\* elements, the i-th being what parse makes of the i-th element on its own
HasParams(tree, elements) ==
    /\ Len(tree.params) = Len(elements)
    /\ \A i \in 1..Len(elements) :
          Shape(tree.params[i]) = Shape(parse(run.calculator, elements[i]).tree)

\* what parse makes of the lists of the elements of E
FlattenedOver(E) ==
    pc # "ready" =>
        \A elements \in UNION {[1..k -> E] : k \in 0..MaxList} :
            /\ formula = ArrayOf(elements) =>
                  parsed.ok /\ parsed.tree.kind = "array" /\ HasParams(parsed.tree, elements)
            /\ formula = CallOf(elements) =>
                  /\ parsed.ok /\ parsed.tree.kind = "function"
                  /\ parsed.tree.source = <<"m", "a", "x">>
                  /\ HasParams(parsed.tree, elements)

\* C25: a list of n >= 1 expressions separated by commas, in brackets or as the
\* arguments of a function, is parsed to an array or a function node with
\* exactly n params in the order of the source; an empty list gives no param; a
\* comma list in parentheses stays one param, a grouping, and is not flattened
\* into the list around it
CommaListFlattened ==
    /\ FlattenedOver(ListElements)
    /\ pc # "ready" /\ formula = ArrayOf(<<<<"(", "1", ",", " ", "2", ")">>, <<"1">>>>) =>
          parsed.ok /\ parsed.tree.params[1].kind = "grouping"

\* the tree handed to reduce is a call of "if" with its three arguments
IfAtRoot ==
    /\ target # UndefinedTree
    /\ target.kind = "function"
    /\ target.source = <<"i", "f">>
    /\ Len(target.params) = 3

\* the calls of reduce made on the argument i of the root, or under it
VisitedUnder(i) == {p \in run.visited : p # <<>> /\ p[1] = i}

\* the tree is "fail()"
Fails(node) == node.kind = "function" /\ node.source = <<"f", "a", "i", "l">>

\* what the reduction has done of the two branches once the test has reduced to
\* a: the branch selected only when a is a value, both branches otherwise
BranchesAfter(a) ==
    IF isValue(run.calculator, a)
    THEN Bind(IF Truthy(getValue(run.calculator, a)) THEN 2 ELSE 3, LAMBDA selected :
            /\ <<selected>> \in run.visited
            /\ VisitedUnder(5 - selected) = {}
            /\ IsEffect(target.params[5 - selected]) => run.effects = 0
            /\ Fails(target.params[5 - selected]) /\ ~Fails(target.params[selected])
                  => run.rejected = <<>>
            /\ \A n \in 1..2 :
                  reductions = 1 /\ IsMemIs(target.params[5 - selected], n)
                      => Mem(run) # Num(n))
    ELSE /\ <<2>> \in run.visited
         /\ <<3>> \in run.visited
         /\ \A k \in 1..Len(run.resolved) :
               /\ run.resolved[k].kind = "function"
               /\ run.resolved[k].source = <<"i", "f">>
               /\ Len(run.resolved[k].params) = 3
               /\ run.resolved[k].params[1] = a
               /\ \A i \in 2..3 :
                     run.resolved[k].params[i] =
                         StartReduce(run.calculator, target.params[i]).resolved[1]

\* C26: the function "if" reduces only the branch it selects: no branch is
\* reduced before the test; when the test reduces to a value, one branch is
\* reduced, the second argument for a truthy value and the third otherwise, and
\* the other one never is, so that it has no effect; when the test does not
\* reduce to a value, both branches are reduced and the result is a node "if"
\* over the three reduced arguments
OnlySelectedBranch ==
    IfAtRoot =>
        /\ VisitedUnder(2) \cup VisitedUnder(3) # {} =>
              /\ <<1>> \in run.visited
              /\ <<>> \in DOMAIN run.frames
              /\ Frame(run, <<>>).mode \in {"branch", "both"}
        /\ <<>> \in DOMAIN run.frames /\ Frame(run, <<>>).mode \in {"branch", "both"} =>
              BranchesAfter(Frame(run, <<>>).a)

\* C26: "if(slow(0), mem = 1, mem = 2)" has been reduced, slow(0) has completed,
\* and mem is 2: the second argument was not reduced
FalsyTestWritesTwo ==
    /\ IfAtRoot
    /\ reductions = 1
    /\ formula = IfOf(<<"s", "l", "o", "w", "(", "0", ")">>,
                      <<"m", "e", "m", " ", "=", " ", "1">>,
                      <<"m", "e", "m", " ", "=", " ", "2">>)
    /\ run.completed # <<>>
    /\ Mem(run) = Num(2)
    /\ <<2>> \notin run.visited
    /\ run.resolved = <<Constant(2)>>

\* C27: a reduction in which every step is synchronous completes: for every
\* formula parse accepts under the default registry, once reduce has returned,
\* it returned normally and resolve or reject was invoked
SynchronousCompletes ==
    pc = "reduced" =>
        /\ run.ended = "no"
        /\ Len(run.resolved) + Len(run.rejected) >= 1

\* what reduce resolves with on the literal registered under key, in the
\* calculator of the run
ReducesTo(key) ==
    StartReduce(run.calculator,
                newLiteral(Get(run.calculator.literals, key), key)).resolved

\* C30: a literal registered without a setter keeps the value and the type it
\* was registered with, whatever was parsed and reduced, "=", "++" and "--"
\* applied to it included: pi and e are stored as addDefaultLiterals registered
\* them and reduce to the constant of that value and type
ConstantsKept ==
    \A key \in {PiToken, EToken} :
        /\ Get(run.calculator.literals, key) = Get(DefaultLiterals, key)
        /\ ReducesTo(key) =
              <<newConstant(Get(DefaultLiterals, key).type,
                            Get(DefaultLiterals, key).value, <<>>)>>

\* C30: "pi = 3" has been reduced after another formula: the right operand
\* reduced to the value 3 and the write of pi ended the run
ThreeToPi ==
    /\ reductions = 2
    /\ IsAssignment(target)
    /\ target.left.source = PiToken
    /\ IsMemIs([target EXCEPT !.left.source = MemToken], 3)
    /\ run.ended = "exception"
    /\ <<2>> \in run.visited

\* the parse followed step by step returns or throws what Calculator.parse does
SameAsParse ==
    pc = "parsed" /\ parser # NoParser => parsed = parse(run.calculator, formula)

\* the text is in the formula f at position at, whatever the case of its letters,
\* and position to is just after it and after the plain spaces that follow it
JustAfter(f, at, t, to) ==
    /\ at + Len(t) <= Len(f)
    /\ ToLowerCase(Substring(f, at, at + Len(t))) = ToLowerCase(t)
    /\ to >= at + Len(t)
    /\ to <= Len(f)
    /\ \A k \in (at + Len(t) + 1)..to : f[k] = " "
    /\ to < Len(f) => f[to + 1] # " "

\* C28: in every state of a parse, 0 <= index <= formula.length, no step has
\* moved the index backwards, each call of next left the index where it was,
\* each call of consume(text) moved it to just after the text and past the plain
\* spaces that follow, and the error thrown, if one was, is not 'End of formula
\* has been reached'
CursorInvariant ==
    parser # NoParser =>
        /\ 0 <= parser.index
        /\ parser.index <= Len(ParserOf.formula)
        /\ parser.from <= parser.index
        /\ \A k \in 1..Len(parser.moves) :
              /\ parser.moves[k].at <= parser.moves[k].to
              /\ parser.moves[k].op = "next" => parser.moves[k].to = parser.moves[k].at
              /\ parser.moves[k].op = "consume" =>
                    JustAfter(ParserOf.formula, parser.moves[k].at, parser.moves[k].text,
                              parser.moves[k].to)
        /\ parser.status = "error" => parser.error.message # EndOfFormula

\* the same without the place of the text consumed: consume(text) moves the
\* index by the length of the text and past the plain spaces that follow
CursorWithinBounds ==
    parser # NoParser =>
        /\ 0 <= parser.index
        /\ parser.index <= Len(ParserOf.formula)
        /\ parser.from <= parser.index
        /\ \A k \in 1..Len(parser.moves) :
              /\ parser.moves[k].at <= parser.moves[k].to
              /\ parser.moves[k].op = "next" => parser.moves[k].to = parser.moves[k].at
              /\ parser.moves[k].op = "consume" =>
                    \/ JustAfter(ParserOf.formula, parser.moves[k].at,
                                 parser.moves[k].text, parser.moves[k].to)
                    \/ ParserOf.formula[parser.moves[k].at + 1] = "\t"
        /\ parser.status = "error" => parser.error.message # EndOfFormula

\* the calls of consume made before a recursive call or in an iteration of a loop
Descending == {"prefix", "grouping", "array", "function", "binary", "postfix"}

\* the calls under way of one function of the parser, by their rank in the stack
CallsOf(f) == {i \in 1..Len(parser.stack) : parser.stack[i].f \in f}

\* every call of consume that precedes a recursive call of Exp or Array, or that
\* an iteration of a loop of Exp makes, has consumed at least one character, and
\* each call of Exp, Primary or Array under way was entered further in the
\* formula than the calls of the same function that enclose it
DescentsAdvance ==
    parser # NoParser =>
        /\ \A k \in 1..Len(parser.moves) :
              parser.moves[k].op = "consume" /\ parser.moves[k].by \in Descending =>
                  /\ Len(parser.moves[k].text) >= 1
                  /\ parser.moves[k].to >= parser.moves[k].at + Len(parser.moves[k].text)
        /\ \A f \in {{"Exp"}, {"Array"}, {"Prefix", "Grouping", "ArrayLiteral", "Function"}} :
              \A i, j \in CallsOf(f) : i < j => parser.stack[i].at < parser.stack[j].at
        /\ Len(parser.stack) <= 3 * Len(ParserOf.formula) + 2

\* C29: parse terminates on every formula, with a tree or with a
\* CalculatorError: every iteration of the loops of Exp and every recursive call
\* of Exp, Primary or Array is preceded by the consumption of at least one
\* character, the index is strictly greater at each nested call, and a parse
\* that has started ends in the state "done" or "error"
ParseTerminates ==
    /\ []DescentsAdvance
    /\ (parser # NoParser) ~> (parser.status \in {"done", "error"})

\* C29: in "(-1)" the literal 1 has been read by the third of three nested calls
\* of Exp, entered at the positions 0, 1 and 2
ThreeDescents ==
    /\ formula = <<"(", "-", "1", ")">>
    /\ parser # NoParser
    /\ parser.status = "running"
    /\ parser.ret.kind = "tree"
    /\ Len(parser.stack) = 6
    /\ CallsOf({"Exp"}) = {2, 4, 6}
    /\ parser.stack[2].at = 0
    /\ parser.stack[4].at = 1
    /\ parser.stack[6].at = 2
    /\ parser.index = 3

====
